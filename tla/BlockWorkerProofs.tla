-------------------------- MODULE BlockWorkerProofs --------------------------
(* For any number of blocks, rounds, chunks and items: no block is used      *)
(* before its ports are set, what is collected for a chunk is its own, and   *)
(* no chunk is lost or worked on twice; the benchmark is a job service, and   *)
(* nothing leaves its type or its bounds.                                    *)
EXTENDS BlockWorkerProperties, FiniteSetTheorems, TLAPS

\* What can be at the input of a block and at its output.
Inputs  == {<<>>} \cup {Item(c, a) : c \in Nat, a \in Nat}
Outputs == {<<>>} \cup {Computed(i) : i \in Inputs}

\* A result that belongs to its chunk.
OwnResult == {r \in [id : Nat, data : Seq(Outputs)] : r.data = OwnData(r.id)}

Types ==
  /\ port \in [Block -> [in : Inputs, out : Outputs, set : BOOLEAN]]
  /\ wpc \in [Block -> {"none", "check", "mark", "pop", "item", "wait", "done"}]
  /\ fpga \in [Block -> {"idle", "running", "done"}]
  /\ coming \in [Block -> Nat] /\ going \in [Block -> Seq(Outputs)]
  /\ sendQ \in Seq(Nat) /\ pushed \in Nat
  /\ receiveQ \in Seq(OwnResult) /\ collected \in Seq(OwnResult)

\* Until the last block is made there is no chunk a thread could take; when
\* there is one, every block has its ports.
PortsInv ==
  /\ mpc \in {"construct", "ports", "stop", "send", "join", "exit"}
  /\ made \in 0 .. NBlocks
  /\ mpc \in {"construct", "ports", "stop"} => made < NBlocks /\ sendQ = <<>>
  /\ mpc \in {"send", "join", "exit"} => made = NBlocks
  /\ \A b \in Block : b <= made => port[b].set
  /\ mpc = "stop" => port[made + 1].set
  /\ PortsSetBeforeUse

\* What a block has so far it has computed from its own chunk; the item it
\* computes is the next one, and an output that is done is that of the input.
WorkInv ==
  /\ \A b \in Block : \A a \in 1 .. Len(going[b]) :
       going[b][a] = Computed(Item(coming[b], a))
  /\ \A b \in Block :
       /\ wpc[b] = "wait" => port[b].in = Item(coming[b], Len(going[b]) + 1)
       /\ fpga[b] = "done" => port[b].out = Computed(port[b].in)

Inv == Types /\ PortsInv /\ WorkInv

\* Items are among the inputs, and what is computed of them among the outputs.
LEMMA PortTypes ==
  /\ \A c, a \in Nat : Item(c, a) \in Inputs
  /\ \A i \in Inputs : Computed(i) \in Outputs
BY DEF Inputs, Outputs

\* The invariant holds at first.
LEMMA InitInv == Init => Inv
<1> SUFFICES ASSUME Init PROVE Inv
  OBVIOUS
<1> USE BlocksAssumption DEF Init
<1>1. Types
  BY DEF Types, Inputs, Outputs, NoChunk
<1>2. PortsInv
  BY DEF PortsInv, PortsSetBeforeUse, Block
<1>3. WorkInv
  BY DEF WorkInv, Block
<1> QED
  BY <1>1, <1>2, <1>3 DEF Inv

\* The steps of the thread of a block.
LEMMA WorkKeepsInv ==
  ASSUME Inv, NEW b \in Block, Work(b)
  PROVE  Inv'
<1> USE BlocksAssumption DEF Inv, At, Go
<1>1. CASE SeesRunning(b)
  <2>1. Types'
    BY <1>1, PortTypes DEF Types, Block, SeesRunning, queues, main, collector
  <2>2. PortsInv'
    BY <1>1 DEF Types, PortsInv, PortsSetBeforeUse, Block, SeesRunning, queues, main, collector
  <2>3. WorkInv'
    BY <1>1 DEF Types, WorkInv, SeesRunning, queues, main, collector
  <2> QED
    BY <2>1, <2>2, <2>3
<1>2. CASE SetsBusy(b)
  <2>1. Types'
    BY <1>2, PortTypes DEF Types, Block, SetsBusy, queues, main, collector
  <2>2. PortsInv'
    BY <1>2 DEF Types, PortsInv, PortsSetBeforeUse, Block, SetsBusy, queues, main, collector
  <2>3. WorkInv'
    BY <1>2 DEF Types, WorkInv, SetsBusy, queues, main, collector
  <2> QED
    BY <2>1, <2>2, <2>3
<1>3. CASE PopsNothing(b)
  <2>1. Types'
    BY <1>3, PortTypes DEF Types, Block, PopsNothing, queues, main, collector
  <2>2. PortsInv'
    BY <1>3 DEF Types, PortsInv, PortsSetBeforeUse, Block, PopsNothing, queues, main, collector
  <2>3. WorkInv'
    BY <1>3 DEF Types, WorkInv, PopsNothing, queues, main, collector
  <2> QED
    BY <2>1, <2>2, <2>3
<1>4. CASE PopsChunk(b)
  <2>0. Head(sendQ) \in Nat /\ Tail(sendQ) \in Seq(Nat)
    BY <1>4 DEF Types, PopsChunk, HasValue
  <2>1. Types'
    BY <1>4, <2>0 DEF Types, PopsChunk, Front, Popped, main, collector
  <2>2. PortsInv'
    BY <1>4 DEF Types, PortsInv, PortsSetBeforeUse, Block, PopsChunk, HasValue, Front, Popped, queues, main, collector
  <2>3. WorkInv'
    BY <1>4 DEF Types, WorkInv, PopsChunk, HasValue, Front, Popped, queues, main, collector
  <2> QED
    BY <2>1, <2>2, <2>3
<1>5. CASE StartsItem(b)
  <2>a. Item(coming[b], Len(going[b]) + 1) \in Inputs
    BY PortTypes DEF Types
  <2>b. \A x \in Block : port'[x].set = port[x].set
    BY <1>5 DEF Types, StartsItem
  <2>1. Types'
    BY <1>5, <2>a DEF Types, StartsItem, queues, main, collector
  <2>2. PortsInv'
    <3>1. made + 1 \in Block <=> made < NBlocks
      BY DEF PortsInv, Block
    <3>2. PortsSetBeforeUse'
      BY <1>5, <2>b DEF Types, PortsInv, PortsSetBeforeUse, StartsItem
    <3> QED
      BY <1>5, <2>b, <3>1, <3>2 DEF PortsInv, StartsItem, queues, main
  <2>3. WorkInv'
    BY <1>5 DEF Types, WorkInv, StartsItem, queues, main, collector
  <2> QED
    BY <2>1, <2>2, <2>3
<1>6. CASE ReadsResult(b)
  <2>1. Types'
    BY <1>6, PortTypes DEF Types, Block, ReadsResult, queues, main, collector
  <2>2. PortsInv'
    BY <1>6 DEF Types, PortsInv, PortsSetBeforeUse, Block, ReadsResult, queues, main, collector
  <2>3. WorkInv'
    BY <1>6 DEF Types, WorkInv, ReadsResult, queues, main, collector
  <2> QED
    BY <2>1, <2>2, <2>3
<1>7. CASE PushesResult(b)
  <2>a. going[b] = OwnData(coming[b])
    <3>1. going[b] \in Seq(Outputs) /\ Len(going[b]) = DSize
      BY <1>7 DEF Types, PushesResult
    <3>2. going[b] = [a \in 1 .. DSize |-> going[b][a]]
      BY <3>1
    <3>3. \A a \in 1 .. DSize : going[b][a] = Computed(Item(coming[b], a))
      BY <3>1 DEF WorkInv
    <3> QED
      BY <3>2, <3>3, Zenon DEF OwnData
  <2>b. [id |-> coming[b], data |-> going[b]] \in OwnResult
    BY <2>a DEF Types, OwnResult
  <2>c. receiveQ' \in Seq(OwnResult)
    BY <1>7, <2>b DEF Types, PushesResult, Push
  <2>1. Types'
    BY <1>7, <2>c DEF Types, PushesResult, NoChunk, main, collector
  <2>2. PortsInv'
    BY <1>7 DEF Types, PortsInv, PortsSetBeforeUse, Block, PushesResult, Push, main, collector
  <2>3. WorkInv'
    BY <1>7 DEF Types, WorkInv, PushesResult, Push, main, collector
  <2> QED
    BY <2>1, <2>2, <2>3
<1>8. CASE SetsDone(b)
  <2>1. Types'
    BY <1>8, PortTypes DEF Types, Block, SetsDone, queues, main, collector
  <2>2. PortsInv'
    BY <1>8 DEF Types, PortsInv, PortsSetBeforeUse, Block, SetsDone, queues, main, collector
  <2>3. WorkInv'
    BY <1>8 DEF Types, WorkInv, SetsDone, queues, main, collector
  <2> QED
    BY <2>1, <2>2, <2>3
<1> QED
  BY <1>1, <1>2, <1>3, <1>4, <1>5, <1>6, <1>7, <1>8 DEF Work

\* A block of the FPGA writes its output.
LEMMA ComputesKeepsInv ==
  ASSUME Inv, NEW b \in Block, Computes(b)
  PROVE  Inv'
<1> USE BlocksAssumption DEF Inv
<1>1. Types'
  BY PortTypes DEF Types, Computes, queues, main, collector
<1>2. PortsInv'
  <2>1. \A x \in Block : port'[x].set = port[x].set
    BY DEF Types, Computes
  <2>2. made + 1 \in Block <=> made < NBlocks
    BY DEF PortsInv, Block
  <2> QED
    BY <2>1, <2>2 DEF PortsInv, PortsSetBeforeUse, Computes, queues, main
<1>3. WorkInv'
  BY DEF Types, WorkInv, Computes, queues, main, collector
<1> QED
  BY <1>1, <1>2, <1>3

\* The main thread and the collecting thread.
LEMMA OthersKeepInv ==
  ASSUME Inv, Main \/ Collector
  PROVE  Inv'
<1> USE BlocksAssumption DEF Inv, Go
<1>1. CASE Constructs
  <2>1. Types'
    BY <1>1, PortTypes DEF Types, Block, Constructs, queues, collector
  <2>2. PortsInv'
    BY <1>1 DEF Types, PortsInv, PortsSetBeforeUse, Block, Constructs, queues, collector
  <2>3. WorkInv'
    BY <1>1 DEF Types, WorkInv, Constructs, queues, collector
  <2> QED
    BY <2>1, <2>2, <2>3
<1>2. CASE SetsPorts
  <2>1. Types'
    BY <1>2, PortTypes DEF Types, Block, SetsPorts, queues, collector
  <2>2. PortsInv'
    BY <1>2 DEF Types, PortsInv, PortsSetBeforeUse, Block, SetsPorts, queues, collector
  <2>3. WorkInv'
    BY <1>2 DEF Types, WorkInv, SetsPorts, queues, collector
  <2> QED
    BY <2>1, <2>2, <2>3
<1>3. CASE StopsNewBlock
  <2>1. Types'
    BY <1>3, PortTypes DEF Types, Block, StopsNewBlock, queues
  <2>2. PortsInv'
    BY <1>3 DEF Types, PortsInv, PortsSetBeforeUse, Block, StopsNewBlock, queues
  <2>3. WorkInv'
    BY <1>3 DEF Types, WorkInv, StopsNewBlock, queues
  <2> QED
    BY <2>1, <2>2, <2>3
<1>4. CASE Sends
  <2>1. Types'
    BY <1>4, PortTypes DEF Types, Block, Sends, Push, worker, collector
  <2>2. PortsInv'
    BY <1>4 DEF Types, PortsInv, PortsSetBeforeUse, Block, Sends, Push, worker, collector
  <2>3. WorkInv'
    BY <1>4 DEF Types, WorkInv, Sends, Push, worker, collector
  <2> QED
    BY <2>1, <2>2, <2>3
<1>5. CASE AllSent
  <2>1. Types'
    BY <1>5, PortTypes DEF Types, Block, AllSent, worker, queues, collector
  <2>2. PortsInv'
    BY <1>5 DEF Types, PortsInv, PortsSetBeforeUse, Block, AllSent, worker, queues, collector
  <2>3. WorkInv'
    BY <1>5 DEF Types, WorkInv, AllSent, worker, queues, collector
  <2> QED
    BY <2>1, <2>2, <2>3
<1>6. CASE Exits
  <2>1. Types'
    BY <1>6, PortTypes DEF Types, Block, Exits, worker, queues, collector
  <2>2. PortsInv'
    BY <1>6 DEF Types, PortsInv, PortsSetBeforeUse, Block, Exits, worker, queues, collector
  <2>3. WorkInv'
    BY <1>6 DEF Types, WorkInv, Exits, worker, queues, collector
  <2> QED
    BY <2>1, <2>2, <2>3
<1>7. CASE ReadiesBlock
  <2>1. Types'
    BY <1>7, PortTypes DEF Types, Block, ReadiesBlock, queues, main
  <2>2. PortsInv'
    BY <1>7 DEF Types, PortsInv, PortsSetBeforeUse, Block, ReadiesBlock, queues, main
  <2>3. WorkInv'
    BY <1>7 DEF Types, WorkInv, ReadiesBlock, queues, main
  <2> QED
    BY <2>1, <2>2, <2>3
<1>8. CASE Collects
  <2>0. Head(receiveQ) \in OwnResult /\ Tail(receiveQ) \in Seq(OwnResult)
    BY <1>8 DEF Types, Collects, HasValue
  <2>1. Types'
    BY <1>8, <2>0 DEF Types, Collects, Front, Popped, worker, main
  <2>2. PortsInv'
    BY <1>8 DEF Types, PortsInv, PortsSetBeforeUse, Block, Collects, HasValue, Front, Popped, worker, main
  <2>3. WorkInv'
    BY <1>8 DEF Types, WorkInv, Collects, HasValue, Front, Popped, worker, main
  <2> QED
    BY <2>1, <2>2, <2>3
<1>9. CASE EndsRound
  <2>1. Types'
    BY <1>9, PortTypes DEF Types, Block, EndsRound, worker, queues, main
  <2>2. PortsInv'
    BY <1>9 DEF Types, PortsInv, PortsSetBeforeUse, Block, EndsRound, worker, queues, main
  <2>3. WorkInv'
    BY <1>9 DEF Types, WorkInv, EndsRound, worker, queues, main
  <2> QED
    BY <2>1, <2>2, <2>3
<1>10. CASE StopsBlock
  <2>1. Types'
    BY <1>10, PortTypes DEF Types, Block, StopsBlock, queues, main
  <2>2. PortsInv'
    BY <1>10 DEF Types, PortsInv, PortsSetBeforeUse, Block, StopsBlock, queues, main
  <2>3. WorkInv'
    BY <1>10 DEF Types, WorkInv, StopsBlock, queues, main
  <2> QED
    BY <2>1, <2>2, <2>3
<1> QED
  BY <1>1, <1>2, <1>3, <1>4, <1>5, <1>6, <1>7, <1>8, <1>9, <1>10 DEF Main, Collector

\* Every step keeps the invariant.
LEMMA NextInv == ASSUME Inv, [Next]_vars PROVE Inv'
<1>1. CASE UNCHANGED vars
  BY <1>1 DEF vars, worker, queues, main, collector, Inv, Types, PortsInv,
     PortsSetBeforeUse, WorkInv
<1>2. CASE Next
  BY <1>2, WorkKeepsInv, ComputesKeepsInv, OthersKeepInv DEF Next
<1> QED
  BY <1>1, <1>2

\* A thread is started before its ports are set and told to stop only afterwards
\* (Block.cpp:17, main.cpp:217-234): it never uses them before, because the queue
\* is empty until every block is made.
THEOREM BlockPortsSetBeforeUse == Spec => []PortsSetBeforeUse
<1>1. Inv => PortsSetBeforeUse
  BY DEF Inv, PortsInv
<1> QED
  BY <1>1, InitInv, NextInv, PTL DEF Spec

\* What is collected for a chunk was computed from its items, in their order
\* (Block.cpp:132-184, main.cpp:261-279).
THEOREM BlockOwnResults == Spec => []OwnResults
<1>1. ASSUME Inv PROVE OwnResults
  <2>1. SUFFICES ASSUME NEW k \in DOMAIN collected
                 PROVE  collected[k].data = OwnData(collected[k].id)
    BY DEF OwnResults
  <2>2. collected[k] \in OwnResult
    BY <1>1, <2>1 DEF Inv, Types
  <2> QED
    BY <2>2 DEF OwnResult
<1> QED
  BY <1>1, InitInv, NextInv, PTL DEF Spec

------------------------------------------------------------------------------
(* Where each chunk is.                                                      *)

Elems(q)   == {q[k] : k \in 1 .. Len(q)}
Ids(q)     == {q[k].id : k \in 1 .. Len(q)}
Once(q)    == \A j, k \in 1 .. Len(q) : q[j] = q[k] => j = k
OnceIds(q) == \A j, k \in 1 .. Len(q) : q[j].id = q[k].id => j = k

Waits  == Elems(sendQ)
Worked == {coming[b] : b \in Block} \ {NoChunk}
Ready  == Ids(receiveQ)
Taken  == Ids(collected)

\* A block has a chunk exactly while its thread is at an item, and the chunks sent
\* are shared out among the four places.
PlaceInv ==
  /\ mpc \in {"construct", "ports", "stop"} => pushed = 0
  /\ \A b \in Block : wpc[b] \in {"item", "wait"} <=> coming[b] # NoChunk
  /\ \A a, b \in Block : coming[a] = coming[b] /\ coming[a] # NoChunk => a = b
  /\ Once(sendQ) /\ OnceIds(receiveQ) /\ OnceIds(collected)
  /\ Waits \cap Worked = {} /\ (Waits \cup Worked) \cap Ready = {}
  /\ (Waits \cup Worked \cup Ready) \cap Taken = {}
  /\ Waits \cup Worked \cup Ready \cup Taken = 1 .. pushed

\* What an append does to the items and to the ids.
LEMMA AppendOnce ==
  ASSUME NEW S, NEW q \in Seq(S), NEW x \in S
  PROVE  /\ Elems(Append(q, x)) = Elems(q) \cup {x}
         /\ Ids(Append(q, x)) = Ids(q) \cup {x.id}
         /\ Once(q) /\ x \notin Elems(q) => Once(Append(q, x))
         /\ OnceIds(q) /\ x.id \notin Ids(q) => OnceIds(Append(q, x))
<1>1. /\ Len(Append(q, x)) = Len(q) + 1
      /\ Append(q, x)[Len(q) + 1] = x
      /\ \A k \in 1 .. Len(q) : Append(q, x)[k] = q[k]
  OBVIOUS
<1>2. Elems(Append(q, x)) = Elems(q) \cup {x}
  BY <1>1 DEF Elems
<1>3. Ids(Append(q, x)) = Ids(q) \cup {x.id}
  BY <1>1 DEF Ids
<1>4. Once(q) /\ x \notin Elems(q) => Once(Append(q, x))
  BY <1>1 DEF Elems, Once
<1>5. OnceIds(q) /\ x.id \notin Ids(q) => OnceIds(Append(q, x))
  BY <1>1 DEF Ids, OnceIds
<1> QED
  BY <1>2, <1>3, <1>4, <1>5

\* What the removal of the front does to them.
LEMMA TailOnce ==
  ASSUME NEW S, NEW q \in Seq(S), q # <<>>
  PROVE  /\ Head(q) \in S
         /\ Elems(q) = {Head(q)} \cup Elems(Tail(q))
         /\ Ids(q) = {Head(q).id} \cup Ids(Tail(q))
         /\ Once(q) => Once(Tail(q)) /\ Head(q) \notin Elems(Tail(q))
         /\ OnceIds(q) => OnceIds(Tail(q)) /\ Head(q).id \notin Ids(Tail(q))
<1>1. /\ Len(q) \in Nat \ {0} /\ Len(Tail(q)) = Len(q) - 1
      /\ Head(q) = q[1] /\ Head(q) \in S
      /\ \A k \in 1 .. Len(q) - 1 : Tail(q)[k] = q[k + 1]
  OBVIOUS
<1>2. \A k \in 1 .. Len(q) : k = 1 \/ (k - 1 \in 1 .. Len(q) - 1 /\ q[k] = Tail(q)[k - 1])
  BY <1>1
<1>3. Elems(q) = {Head(q)} \cup Elems(Tail(q))
  BY <1>1, <1>2 DEF Elems
<1>4. Ids(q) = {Head(q).id} \cup Ids(Tail(q))
  <2>1. \A k \in 1 .. Len(q) : q[k].id \in {Head(q).id} \cup Ids(Tail(q))
    <3> SUFFICES ASSUME NEW k \in 1 .. Len(q), k # 1
                 PROVE  q[k].id \in Ids(Tail(q))
      BY <1>1
    <3>1. k - 1 \in 1 .. Len(Tail(q)) /\ q[k].id = Tail(q)[k - 1].id
      BY <1>1, <1>2
    <3> QED
      BY <3>1 DEF Ids
  <2>2. \A k \in 1 .. Len(Tail(q)) : Tail(q)[k].id \in Ids(q)
    <3> SUFFICES ASSUME NEW k \in 1 .. Len(Tail(q))
                 PROVE  Tail(q)[k].id \in Ids(q)
      OBVIOUS
    <3>1. k + 1 \in 1 .. Len(q) /\ Tail(q)[k].id = q[k + 1].id
      BY <1>1
    <3> QED
      BY <3>1 DEF Ids
  <2>3. Head(q).id \in Ids(q)
    BY <1>1 DEF Ids
  <2>4. Ids(q) \subseteq {Head(q).id} \cup Ids(Tail(q))
    BY <2>1 DEF Ids
  <2>5. Ids(Tail(q)) \subseteq Ids(q)
    BY <2>2 DEF Ids
  <2> QED
    BY <2>3, <2>4, <2>5
<1>5. Once(q) => Once(Tail(q)) /\ Head(q) \notin Elems(Tail(q))
  BY <1>1 DEF Elems, Once
<1>6. OnceIds(q) => OnceIds(Tail(q)) /\ Head(q).id \notin Ids(Tail(q))
  BY <1>1 DEF Ids, OnceIds
<1> QED
  BY <1>1, <1>3, <1>4, <1>5, <1>6

\* A step that moves no chunk.
Still ==
  /\ UNCHANGED <<coming, sendQ, receiveQ, collected, pushed>>
  /\ \A b \in Block : wpc'[b] \in {"item", "wait"} <=> wpc[b] \in {"item", "wait"}
  /\ mpc' \in {"construct", "ports", "stop"} => mpc \in {"construct", "ports", "stop"}

\* Such a step leaves every chunk in its place.
LEMMA StillKeepsPlaces == ASSUME PlaceInv, Still PROVE PlaceInv'
BY DEF PlaceInv, Still, Waits, Worked, Ready, Taken

\* The others are four: a chunk is sent, taken by a block, handed back, collected.
LEMMA MovesOrStill ==
  ASSUME Inv, PlaceInv, [Next]_vars
  PROVE  \/ Still \/ Sends \/ Collects
         \/ \E b \in Block : PopsChunk(b) \/ PushesResult(b)
<1> USE DEF Inv, Still, Types, At, Go, worker, queues, main, collector
<1>1. CASE UNCHANGED vars
  BY <1>1 DEF vars
<1>2. CASE Constructs
  <2>1. pushed = 0 /\ Worked = {}
    BY <1>2 DEF PlaceInv, Constructs
  <2>2. \A b \in Block : wpc[b] \notin {"item", "wait"}
    BY <2>1 DEF PlaceInv, Worked
  <2> QED
    BY <1>2, <2>2 DEF Constructs
<1>3. CASE SetsPorts \/ StopsNewBlock \/ AllSent \/ Exits
  BY <1>3 DEF SetsPorts, StopsNewBlock, AllSent, Exits
<1>4. CASE ReadiesBlock \/ EndsRound \/ StopsBlock
  BY <1>4 DEF ReadiesBlock, EndsRound, StopsBlock
<1>5. ASSUME NEW b \in Block, Computes(b) PROVE Still
  BY <1>5 DEF Computes
<1>6. ASSUME NEW b \in Block, SeesRunning(b) \/ SetsBusy(b) \/ PopsNothing(b) PROVE Still
  BY <1>6 DEF SeesRunning, SetsBusy, PopsNothing
<1>7. ASSUME NEW b \in Block, StartsItem(b) \/ ReadsResult(b) \/ SetsDone(b) PROVE Still
  BY <1>7 DEF StartsItem, ReadsResult, SetsDone
<1> QED
  BY <1>1, <1>2, <1>3, <1>4, <1>5, <1>6, <1>7 DEF Next, Main, Collector, Work

\* The main thread sends the next chunk.
LEMMA SendsKeepsPlaces == ASSUME Inv, PlaceInv, Sends PROVE PlaceInv'
<1>1. /\ sendQ \in Seq(Nat) /\ pushed \in Nat /\ pushed + 1 \in Nat
      /\ sendQ' = Append(sendQ, pushed + 1) /\ pushed' = pushed + 1
      /\ UNCHANGED <<mpc, wpc, coming, receiveQ, collected>> /\ mpc = "send"
  BY DEF Inv, Types, Sends, Push, worker, collector
<1>2. pushed + 1 \notin 1 .. pushed /\ 1 .. pushed + 1 = (1 .. pushed) \cup {pushed + 1}
  BY <1>1
<1>3. Waits' = Waits \cup {pushed + 1} /\ Once(sendQ')
  BY <1>1, <1>2, AppendOnce DEF PlaceInv, Waits
<1>4. Worked' = Worked /\ Ready' = Ready /\ Taken' = Taken
  BY <1>1 DEF Worked, Ready, Taken
<1>5. (1 .. pushed)' = (1 .. pushed) \cup {pushed + 1}
  BY <1>1, <1>2
<1> QED
  BY <1>1, <1>2, <1>3, <1>4, <1>5 DEF PlaceInv

\* A block takes a chunk.
LEMMA PopsKeepsPlaces ==
  ASSUME Inv, PlaceInv, NEW b \in Block, PopsChunk(b)
  PROVE  PlaceInv'
<1>1. PICK c \in Nat : c = Head(sendQ)
  BY TailOnce DEF Inv, Types, PopsChunk, HasValue
<1>2. /\ sendQ' = Tail(sendQ) /\ coming' = [coming EXCEPT ![b] = c]
      /\ wpc' = [wpc EXCEPT ![b] = "item"] /\ wpc[b] = "pop"
      /\ UNCHANGED <<mpc, pushed, receiveQ, collected>>
  BY <1>1 DEF PopsChunk, Front, Popped, At, Go, main, collector
<1>3. Waits = {c} \cup Waits' /\ c \notin Waits' /\ Once(sendQ')
  BY <1>1, <1>2, TailOnce DEF Inv, Types, PopsChunk, HasValue, Waits, PlaceInv
<1>4. c \in 1 .. pushed /\ c # NoChunk /\ c \notin Worked
  BY <1>3 DEF PlaceInv, NoChunk
<1>5. /\ coming'[b] = c /\ coming[b] = NoChunk
      /\ \A a \in Block \ {b} : coming'[a] = coming[a] /\ wpc'[a] = wpc[a]
      /\ wpc'[b] = "item"
  BY <1>2 DEF Inv, Types, PlaceInv
<1>6. Worked' = Worked \cup {c}
  BY <1>4, <1>5 DEF Worked
<1>7. \A a \in Block \ {b} : coming[a] # c
  BY <1>4 DEF Worked
<1>8. /\ \A a \in Block : wpc'[a] \in {"item", "wait"} <=> coming'[a] # NoChunk
      /\ \A x, y \in Block : coming'[x] = coming'[y] /\ coming'[x] # NoChunk => x = y
  BY <1>4, <1>5, <1>7 DEF PlaceInv
<1>9. Ready' = Ready /\ Taken' = Taken /\ (1 .. pushed)' = 1 .. pushed
  BY <1>2 DEF Ready, Taken
<1> QED
  BY <1>2, <1>3, <1>4, <1>6, <1>8, <1>9 DEF PlaceInv

\* A block hands the result of its chunk over.
LEMMA PushesKeepsPlaces ==
  ASSUME Inv, PlaceInv, NEW b \in Block, PushesResult(b)
  PROVE  PlaceInv'
<1>1. PICK c \in Nat : c = coming[b]
  BY DEF Inv, Types
<1> DEFINE r == [id |-> coming[b], data |-> going[b]]
<1>2. /\ receiveQ' = Append(receiveQ, r) /\ coming' = [coming EXCEPT ![b] = NoChunk]
      /\ wpc' = [wpc EXCEPT ![b] = "done"] /\ wpc[b] = "item"
      /\ UNCHANGED <<mpc, pushed, sendQ, collected>>
  BY DEF PushesResult, Push, At, Go, main, collector
<1>3. c # NoChunk /\ c \in Worked /\ r.id = c
  BY <1>1, <1>2 DEF PlaceInv, Worked
<1>4. /\ coming'[b] = NoChunk /\ wpc'[b] = "done"
      /\ \A a \in Block \ {b} : coming'[a] = coming[a] /\ coming[a] # c /\ wpc'[a] = wpc[a]
  BY <1>1, <1>2, <1>3 DEF Inv, Types, PlaceInv
<1>5. Worked = {c} \cup Worked' /\ c \notin Worked'
  BY <1>1, <1>3, <1>4 DEF Worked
<1>6. /\ \A a \in Block : wpc'[a] \in {"item", "wait"} <=> coming'[a] # NoChunk
      /\ \A x, y \in Block : coming'[x] = coming'[y] /\ coming'[x] # NoChunk => x = y
  BY <1>4 DEF PlaceInv
<1>7. c \notin Ready /\ c \notin Waits /\ c \notin Taken
  BY <1>3 DEF PlaceInv
<1>8. Ready' = Ready \cup {c} /\ OnceIds(receiveQ')
  <2>1. receiveQ \in Seq(OwnResult \cup {r}) /\ r \in OwnResult \cup {r}
    BY DEF Inv, Types
  <2> HIDE DEF r
  <2> QED
    BY <1>2, <1>3, <1>7, <2>1, AppendOnce DEF PlaceInv, Ready
<1>9. Waits' = Waits /\ Taken' = Taken /\ (1 .. pushed)' = 1 .. pushed
  BY <1>2 DEF Waits, Taken
<1> HIDE DEF r
<1> QED
  BY <1>2, <1>5, <1>6, <1>7, <1>8, <1>9 DEF PlaceInv

\* The collecting thread takes a result.
LEMMA CollectsKeepsPlaces == ASSUME Inv, PlaceInv, Collects PROVE PlaceInv'
<1>1. /\ receiveQ \in Seq(OwnResult) /\ collected \in Seq(OwnResult) /\ receiveQ # <<>>
      /\ receiveQ' = Tail(receiveQ) /\ collected' = Append(collected, Head(receiveQ))
      /\ UNCHANGED <<mpc, pushed, wpc, coming, sendQ>>
  BY DEF Inv, Types, Collects, HasValue, Front, Popped, worker, main
<1>2. PICK r \in OwnResult : r = Head(receiveQ)
  BY <1>1, TailOnce
<1>3. Ready = {r.id} \cup Ready' /\ r.id \notin Ready' /\ OnceIds(receiveQ')
  BY <1>1, <1>2, TailOnce DEF PlaceInv, Ready
<1>4. r.id \notin Taken /\ r.id \notin Waits /\ r.id \notin Worked
  BY <1>3 DEF PlaceInv
<1>5. Taken' = Taken \cup {r.id} /\ OnceIds(collected')
  BY <1>1, <1>2, <1>4, AppendOnce DEF PlaceInv, Taken
<1>6. Waits' = Waits /\ Worked' = Worked /\ (1 .. pushed)' = 1 .. pushed
  BY <1>1 DEF Waits, Worked
<1> QED
  BY <1>1, <1>3, <1>4, <1>5, <1>6 DEF PlaceInv

\* A set without two different members.
LEMMA AtMostOne ==
  ASSUME NEW S, \A x, y \in S : x = y
  PROVE  Cardinality(S) = IF S = {} THEN 0 ELSE 1
<1>1. CASE S = {}
  BY <1>1, FS_EmptySet
<1>2. ASSUME NEW x \in S PROVE Cardinality(S) = 1
  <2>1. S = {x}
    BY <1>2
  <2> QED
    BY <2>1, FS_Singleton
<1> QED
  BY <1>1, <1>2

\* A chunk shared out as PlaceInv says is counted once.
LEMMA PlacesCount == ASSUME Inv, PlaceInv PROVE ChunkInOnePlace
<1> SUFFICES ASSUME NEW c \in Chunk
             PROVE  Cardinality(Places(c).waits) + Cardinality(Places(c).worked)
                      + Cardinality(Places(c).ready) + Cardinality(Places(c).taken)
                        = IF c <= pushed THEN 1 ELSE 0
  BY DEF ChunkInOnePlace
<1>0. c # NoChunk /\ (c \in 1 .. pushed <=> c <= pushed)
  BY BlocksAssumption DEF Chunk, NoChunk, Inv, Types
<1> DEFINE w == {k \in DOMAIN sendQ : sendQ[k] = c}
           a == {b \in Block : coming[b] = c}
           r == {k \in DOMAIN receiveQ : receiveQ[k].id = c}
           t == {k \in DOMAIN collected : collected[k].id = c}
<1>1. Places(c).waits = w /\ Places(c).worked = a /\ Places(c).ready = r /\ Places(c).taken = t
  BY DEF Places
<1>2. /\ DOMAIN sendQ = 1 .. Len(sendQ) /\ DOMAIN receiveQ = 1 .. Len(receiveQ)
      /\ DOMAIN collected = 1 .. Len(collected)
  BY DEF Inv, Types
<1>3. /\ \A x, y \in w : x = y
      /\ w = {} <=> c \notin Waits
  BY <1>2 DEF PlaceInv, Once, Waits, Elems
<1>4. /\ \A x, y \in a : x = y
      /\ a = {} <=> c \notin Worked
  BY <1>0 DEF PlaceInv, Worked
<1>5. /\ \A x, y \in r : x = y
      /\ r = {} <=> c \notin Ready
  BY <1>2 DEF PlaceInv, OnceIds, Ready, Ids
<1>6. /\ \A x, y \in t : x = y
      /\ t = {} <=> c \notin Taken
  BY <1>2 DEF PlaceInv, OnceIds, Taken, Ids
<1> HIDE DEF w, a, r, t
<1>7. /\ Cardinality(w) = IF c \in Waits THEN 1 ELSE 0
      /\ Cardinality(a) = IF c \in Worked THEN 1 ELSE 0
      /\ Cardinality(r) = IF c \in Ready THEN 1 ELSE 0
      /\ Cardinality(t) = IF c \in Taken THEN 1 ELSE 0
  BY <1>3, <1>4, <1>5, <1>6, AtMostOne
<1>8. /\ c \in Waits => c \notin Worked /\ c \notin Ready /\ c \notin Taken
      /\ c \in Worked => c \notin Ready /\ c \notin Taken
      /\ c \in Ready => c \notin Taken
      /\ c \in Waits \/ c \in Worked \/ c \in Ready \/ c \in Taken <=> c <= pushed
  BY <1>0 DEF PlaceInv
<1> QED
  BY <1>1, <1>7, <1>8

\* At first no chunk is anywhere.
LEMMA PlaceInit == Init => PlaceInv
BY DEF Init, PlaceInv, Waits, Worked, Ready, Taken, Elems, Ids, Once, OnceIds, NoChunk

\* Every step leaves the chunks shared out.
LEMMA PlaceStep == ASSUME Inv, PlaceInv, [Next]_vars PROVE PlaceInv'
BY MovesOrStill, StillKeepsPlaces, SendsKeepsPlaces, PopsKeepsPlaces,
   PushesKeepsPlaces, CollectsKeepsPlaces

\* Whichever threads meet over the queues, no chunk that was sent is lost and none
\* is worked on twice (safeQ.hpp:51-64, main.cpp:261-282).
THEOREM BlockChunkInOnePlace == Spec => []ChunkInOnePlace
<1>1. Init => PlaceInv
  BY PlaceInit
<1>2. ASSUME Inv, PlaceInv, [Next]_vars PROVE PlaceInv'
  BY <1>2, PlaceStep
<1>3. Inv /\ PlaceInv => ChunkInOnePlace
  BY PlacesCount
<1> QED
  BY <1>1, <1>2, <1>3, InitInv, NextInv, PTL DEF Spec

------------------------------------------------------------------------------
(* The benchmark implements the service.                                     *)

\* What the collecting thread has taken is what its rounds say; it is over when
\* that is as many results as there are chunks.
CollectInv ==
  /\ cpc \in {"none", "ready", "collect", "stop", "over"}
  /\ round \in Nat /\ count2 \in 0 .. InSize
  /\ cpc \in {"none", "ready", "collect"} => round + 1 <= Rounds
  /\ cpc = "none" <=> mpc \in {"construct", "ports", "stop"}
  /\ cpc = "none" => round = 0
  /\ cpc \in {"none", "ready"} => Len(collected) = round * InSize
  /\ cpc = "collect" => Len(collected) = round * InSize + count2
  /\ cpc \in {"stop", "over"} => Len(collected) = Rounds * InSize
  /\ pushed <= Rounds * InSize
  /\ mpc \in {"join", "exit"} => pushed = Rounds * InSize
  /\ mpc = "exit" => cpc = "over"

AllInv == Inv /\ PlaceInv /\ CollectInv

LEMMA CollectInit == Init => CollectInv
<1> SUFFICES ASSUME Init PROVE CollectInv
  OBVIOUS
<1>1. 0 * InSize = 0 /\ Rounds * InSize \in Nat /\ Rounds \in Nat \ {0} /\ InSize \in Nat
  BY BlocksAssumption
<1> QED
  BY <1>1 DEF Init, CollectInv

\* Every step of the main and the collecting thread keeps the count.
LEMMA CollectStep == ASSUME Inv, PlaceInv, CollectInv, [Next]_vars PROVE CollectInv'
<1>0. /\ Rounds \in Nat /\ Rounds >= 1 /\ InSize \in Nat /\ Rounds * InSize \in Nat
      /\ round \in Nat /\ pushed \in Nat /\ collected \in Seq(OwnResult)
      /\ receiveQ \in Seq(OwnResult)
  BY BlocksAssumption DEF Inv, Types, CollectInv
<1>m. (round + 1) * InSize = round * InSize + InSize /\ round * InSize \in Nat
  BY <1>0
<1> USE DEF CollectInv, worker, queues, main, collector
<1>1. CASE UNCHANGED vars
  BY <1>1 DEF vars
<1>2. CASE Constructs \/ SetsPorts
  BY <1>2 DEF Constructs, SetsPorts
<1>3. CASE StopsNewBlock
  BY <1>3 DEF StopsNewBlock
<1>4. CASE Sends
  BY <1>0, <1>4 DEF Sends
<1>5. CASE AllSent \/ Exits
  BY <1>5 DEF AllSent, Exits
<1>6. CASE ReadiesBlock
  BY <1>0, <1>m, <1>6 DEF ReadiesBlock
<1>7. CASE Collects
  <2>1. Len(collected') = Len(collected) + 1
    BY <1>0, <1>7, TailOnce DEF Collects, Front, HasValue
  <2> QED
    BY <1>0, <1>m, <1>7, <2>1 DEF Collects
<1>8. CASE EndsRound
  <2>1. CASE round + 1 < Rounds
    BY <1>0, <1>m, <1>8, <2>1 DEF EndsRound
  <2>2. CASE ~(round + 1 < Rounds)
    <3>1. round + 1 = Rounds
      BY <1>0, <1>8, <2>2 DEF EndsRound
    <3> QED
      BY <1>0, <1>m, <1>8, <2>2, <3>1 DEF EndsRound
  <2> QED
    BY <2>1, <2>2
<1>9. CASE StopsBlock
  BY <1>0, <1>9 DEF StopsBlock
<1>10. ASSUME NEW b \in Block, Work(b) \/ Computes(b) PROVE CollectInv'
  BY <1>10 DEF Work, Computes, SeesRunning, SetsBusy, PopsNothing, PopsChunk, StartsItem,
               ReadsResult, PushesResult, SetsDone
<1> QED
  BY <1>1, <1>2, <1>3, <1>4, <1>5, <1>6, <1>7, <1>8, <1>9, <1>10 DEF Next, Main, Collector

LEMMA BlockAllInv == Spec => []AllInv
<1>1. Init => AllInv
  BY InitInv, PlaceInit, CollectInit DEF AllInv
<1>2. AllInv /\ [Next]_vars => AllInv'
  BY NextInv, PlaceStep, CollectStep DEF AllInv
<1> QED
  BY <1>1, <1>2, PTL DEF Spec

\* As many results as chunks, and no two of one chunk, are results of all chunks.
LEMMA AllTaken ==
  ASSUME AllInv, Len(collected) = Rounds * InSize
  PROVE  Taken = Chunk
<1>1. /\ Len(collected) \in Nat /\ Chunk = 1 .. Len(collected)
      /\ DOMAIN collected = 1 .. Len(collected)
  BY DEF AllInv, Inv, Types, Chunk
<1>2. Taken \subseteq Chunk
  BY <1>1, BlocksAssumption DEF AllInv, PlaceInv, CollectInv, Chunk, Inv, Types
<1> DEFINE id == [k \in Chunk |-> collected[k].id]
<1>3. ExistsBijection(Chunk, Taken)
  <2>1. \A k \in Chunk : id[k] \in Taken
    BY <1>1 DEF Taken, Ids
  <2>2. \A k, l \in Chunk : id[k] = id[l] => k = l
    BY <1>1 DEF AllInv, PlaceInv, OnceIds
  <2>3. \A c \in Taken : \E k \in Chunk : id[k] = c
    BY <1>1 DEF Taken, Ids
  <2>4. id \in [Chunk -> Taken]
    BY <2>1
  <2> HIDE DEF id
  <2>5. id \in Injection(Chunk, Taken)
    BY <2>2, <2>4 DEF Injection, IsInjective
  <2>6. id \in Surjection(Chunk, Taken)
    BY <2>3, <2>4 DEF Surjection
  <2> QED
    BY <2>5, <2>6 DEF Bijection, ExistsBijection
<1>4. IsFiniteSet(Chunk)
  BY <1>1, FS_Interval
<1>5. Cardinality(Taken) = Cardinality(Chunk)
  BY <1>3, <1>4, FS_Bijection
<1> QED
  BY <1>2, <1>4, <1>5, FS_Subset

\* A chunk that has not been sent is new; after that it is accepted until it is taken.
LEMMA StatusOf ==
  ASSUME AllInv, NEW c \in Chunk
  PROVE  statusBar[c] = IF c > pushed THEN "new"
                        ELSE IF c \in Taken THEN "answered" ELSE "accepted"
<1>1. DOMAIN collected = 1 .. Len(collected)
  BY DEF AllInv, Inv, Types
<1>2. Places(c).taken = {} <=> c \notin Taken
  BY <1>1 DEF Places, Taken, Ids
<1> QED
  BY <1>2 DEF statusBar

\* Only what was sent and what was collected decide the states of the chunks.
LEMMA StatusStill == ASSUME UNCHANGED <<collected, pushed>> PROVE statusBar' = statusBar
BY DEF statusBar, Places

\* The chunk that is sent is accepted.
LEMMA SendsAccepts ==
  ASSUME AllInv, AllInv', Sends
  PROVE  Service!Next
<1>1. /\ pushed \in Nat /\ pushed' = pushed + 1 /\ pushed < Rounds * InSize
      /\ Rounds * InSize \in Nat /\ mpc = "send" /\ UNCHANGED <<mpc, collected>>
  BY BlocksAssumption DEF Sends, AllInv, Inv, Types, collector
<1> DEFINE c == pushed + 1
<1>2. c \in Chunk /\ c > pushed /\ ~(c > pushed')
  BY <1>1 DEF Chunk
<1>3. c \notin Taken' /\ Taken' = Taken
  <2>1. Taken' = Taken
    BY <1>1 DEF Taken
  <2> QED
    BY <1>1, <2>1 DEF AllInv, PlaceInv
<1> HIDE DEF c
<1>4. statusBar[c] = "new" /\ statusBar'[c] = "accepted"
  BY <1>2, <1>3, StatusOf DEF statusBar, Places, Taken, Ids, AllInv, Inv, Types
<1>5. \A d \in Chunk \ {c} : statusBar'[d] = statusBar[d]
  BY <1>1 DEF c, Chunk, statusBar, Places
<1>6. statusBar' = [statusBar EXCEPT ![c] = "accepted"]
  BY <1>2, <1>4, <1>5 DEF statusBar
<1>7. sessionBar = "open" /\ sessionBar' = sessionBar
  BY <1>1 DEF sessionBar
<1>8. Service!Accept(c)
  BY <1>4, <1>6, <1>7 DEF Service!Accept
<1> QED
  BY <1>2, <1>8 DEF Service!Next

\* The chunk whose result is taken is answered.
LEMMA CollectsAnswers ==
  ASSUME AllInv, AllInv', Collects
  PROVE  Service!Next
<1>1. /\ receiveQ \in Seq(OwnResult) /\ collected \in Seq(OwnResult) /\ receiveQ # <<>>
      /\ collected' = Append(collected, Head(receiveQ)) /\ UNCHANGED <<mpc, pushed>>
      /\ cpc = "collect" /\ pushed \in Nat
  BY DEF AllInv, Inv, Types, Collects, HasValue, Front, main
<1>2. PICK r \in OwnResult : r = Head(receiveQ)
  BY <1>1, TailOnce
<1>3. r.id \in Ready
  BY <1>1, <1>2, TailOnce DEF Ready
<1> DEFINE c == r.id
<1>4. c \in Chunk /\ ~(c > pushed) /\ c \notin Taken
  BY <1>1, <1>3, BlocksAssumption DEF AllInv, PlaceInv, CollectInv, Chunk
<1>5. Taken' = Taken \cup {c}
  BY <1>1, <1>2, AppendOnce DEF Taken
<1> HIDE DEF c
<1>6. /\ \A d \in Chunk : Places(d).taken = {} <=> d \notin Taken
      /\ \A d \in Chunk : Places(d).taken' = {} <=> d \notin Taken'
  BY DEF Places, Taken, Ids, AllInv, Inv, Types
<1>7. statusBar[c] = "accepted" /\ statusBar'[c] = "answered"
  BY <1>1, <1>4, <1>5, <1>6 DEF statusBar
<1>8. \A d \in Chunk \ {c} : statusBar'[d] = statusBar[d]
  BY <1>1, <1>5, <1>6 DEF statusBar
<1>9. statusBar' = [statusBar EXCEPT ![c] = "answered"]
  BY <1>4, <1>7, <1>8 DEF statusBar
<1>10. sessionBar \in {"open", "draining"} /\ sessionBar' = sessionBar
  BY <1>1 DEF sessionBar, AllInv, Inv, PortsInv, CollectInv
<1>11. Service!Answer(c)
  BY <1>7, <1>9, <1>10 DEF Service!Answer
<1> QED
  BY <1>4, <1>11 DEF Service!Next

\* Every step is one of the service's, or none.
LEMMA ServiceStep ==
  ASSUME AllInv, AllInv', [Next]_vars
  PROVE  [Service!Next]_(Service!svars)
<1>s. sessionBar' = sessionBar /\ statusBar' = statusBar => [Service!Next]_(Service!svars)
  BY DEF Service!svars
<1> USE DEF worker, queues, main, collector
<1>1. CASE UNCHANGED <<mpc, collected, pushed>>
  <2>1. sessionBar' = sessionBar
    BY <1>1 DEF sessionBar
  <2> QED
    BY <1>s, <1>1, <2>1, StatusStill
<1>2. CASE Constructs \/ SetsPorts
  <2>1. UNCHANGED <<collected, pushed>> /\ sessionBar' = sessionBar
    BY <1>2 DEF Constructs, SetsPorts, sessionBar
  <2> QED
    BY <1>s, <2>1, StatusStill
<1>3. CASE StopsNewBlock
  <2>1. UNCHANGED <<collected, pushed>> /\ sessionBar = "opening"
    BY <1>3 DEF StopsNewBlock, sessionBar
  <2>2. sessionBar' \in {"opening", "open"}
    BY <1>3 DEF StopsNewBlock, sessionBar
  <2>3. statusBar' = statusBar
    BY <2>1, StatusStill
  <2> QED
    BY <1>s, <2>1, <2>2, <2>3 DEF Service!Next, Service!Open
<1>4. CASE Sends
  BY <1>4, SendsAccepts
<1>5. CASE AllSent
  <2>1. UNCHANGED <<collected, pushed>> /\ sessionBar = "open" /\ sessionBar' = "draining"
    BY <1>5 DEF AllSent, sessionBar
  <2>2. statusBar' = statusBar
    BY <2>1, StatusStill
  <2> QED
    BY <2>1, <2>2 DEF Service!Next, Service!StartDraining
<1>6. CASE Exits
  <2>1. UNCHANGED <<collected, pushed>> /\ sessionBar = "draining" /\ sessionBar' = "closed"
    BY <1>6 DEF Exits, sessionBar
  <2>2. statusBar' = statusBar
    BY <2>1, StatusStill
  <2>3. Taken = Chunk
    BY <1>6, AllTaken DEF Exits, AllInv, CollectInv
  <2>4. \A c \in Chunk : statusBar[c] # "accepted"
    BY <2>3, StatusOf
  <2>5. Service!Accepted = {}
    BY <2>4 DEF Service!Accepted
  <2> QED
    BY <2>1, <2>2, <2>5 DEF Service!Next, Service!CloseDrained
<1>7. CASE ReadiesBlock \/ EndsRound \/ StopsBlock
  BY <1>1, <1>7 DEF ReadiesBlock, EndsRound, StopsBlock
<1>8. CASE Collects
  BY <1>8, CollectsAnswers
<1>9. ASSUME NEW b \in Block, Work(b) \/ Computes(b)
      PROVE  [Service!Next]_(Service!svars)
  BY <1>1, <1>9 DEF Work, Computes, SeesRunning, SetsBusy, PopsNothing, PopsChunk, StartsItem,
                    ReadsResult, PushesResult, SetsDone
<1>10. CASE UNCHANGED vars
  BY <1>1, <1>10 DEF vars
<1> QED
  BY <1>2, <1>3, <1>4, <1>5, <1>6, <1>7, <1>8, <1>9, <1>10 DEF Next, Main, Collector

\* No chunk is answered twice or before it was sent, none is accepted after the
\* last, and the program returns only when every one of them is answered
\* (main.cpp:240-285, :383).
THEOREM BlockImplementsService == Spec => ImplementsService
<1>1. Init => Service!Init
  <2>1. Init => sessionBar = "opening"
    BY DEF Init, sessionBar
  <2>2. ASSUME Init, NEW c \in Chunk PROVE c > pushed
    BY <2>2, BlocksAssumption DEF Init, Chunk
  <2> QED
    BY <2>1, <2>2 DEF Service!Init, statusBar
<1>2. AllInv /\ AllInv' /\ [Next]_vars => [Service!Next]_(Service!svars)
  BY ServiceStep
<1> QED
  BY <1>1, <1>2, BlockAllInv, PTL DEF Spec, ImplementsService, Service!Spec

------------------------------------------------------------------------------
(* Types and bounds.                                                         *)

\* A thread that waits for a result has room for it, and the collecting thread that
\* stops the blocks has one left to stop.
BoundsInv ==
  /\ state \in [Block -> {"none", "ready", "busy", "done", "stopped"}]
  /\ \A b \in Block : Len(going[b]) <= DSize
  /\ \A b \in Block : wpc[b] = "wait" => Len(going[b]) < DSize
  /\ round <= Rounds /\ (cpc = "stop" => round < Rounds)

LEMMA BoundsInit == Init => BoundsInv
BY BlocksAssumption DEF Init, BoundsInv

LEMMA BoundsStep == ASSUME AllInv, BoundsInv, [Next]_vars PROVE BoundsInv'
<1>0. /\ Rounds \in Nat /\ Rounds >= 1 /\ Rounds <= NBlocks /\ NBlocks \in Nat
      /\ DSize \in Nat /\ round \in Nat /\ made \in 0 .. NBlocks
      /\ going \in [Block -> Seq(Outputs)] /\ port \in [Block -> [in : Inputs, out : Outputs, set : BOOLEAN]]
      /\ wpc \in [Block -> {"none", "check", "mark", "pop", "item", "wait", "done"}]
      /\ mpc \in {"construct", "ports", "stop"} => made < NBlocks
      /\ cpc \in {"none", "ready", "collect"} => round + 1 <= Rounds
  BY BlocksAssumption DEF AllInv, Inv, Types, PortsInv, CollectInv
<1>a. \A k \in Nat : k < NBlocks => k + 1 \in Block
  BY <1>0 DEF Block
<1> USE DEF BoundsInv, worker, queues, main, collector
<1>1. CASE UNCHANGED vars
  BY <1>1 DEF vars
<1>2. CASE Constructs
  <2>1. made + 1 \in Block /\ wpc' = [wpc EXCEPT ![made + 1] = "check"]
    BY <1>0, <1>a, <1>2 DEF Constructs, Go
  <2> QED
    BY <1>0, <1>2, <2>1 DEF Constructs
<1>3. CASE SetsPorts
  BY <1>3 DEF SetsPorts
<1>4. CASE StopsNewBlock
  <2>1. cpc' = "stop" => cpc = "stop"
    BY <1>4 DEF StopsNewBlock
  <2> QED
    BY <1>0, <1>4, <2>1 DEF StopsNewBlock
<1>5. CASE Sends \/ AllSent \/ Exits
  BY <1>5 DEF Sends, AllSent, Exits
<1>6. CASE ReadiesBlock
  BY <1>0, <1>6 DEF ReadiesBlock
<1>7. CASE Collects
  BY <1>7 DEF Collects
<1>8. CASE EndsRound
  <2>1. CASE round + 1 < Rounds
    BY <1>0, <1>8, <2>1 DEF EndsRound
  <2>2. CASE ~(round + 1 < Rounds)
    <3>1. round' = 0 /\ 0 < Rounds /\ UNCHANGED worker
      BY <1>0, <1>8, <2>2 DEF EndsRound
    <3> QED
      BY <1>0, <3>1
  <2> QED
    BY <2>1, <2>2
<1>9. CASE StopsBlock
  <2>1. round + 1 \in Block /\ round + 1 <= Rounds
    BY <1>0, <1>a, <1>9 DEF StopsBlock
  <2>2. /\ state' = [state EXCEPT ![round + 1] = "stopped"]
        /\ round' = round + 1 /\ (cpc' = "stop" => round + 1 < Rounds)
        /\ UNCHANGED <<going, wpc>>
    BY <1>9 DEF StopsBlock
  <2> QED
    BY <1>0, <2>1, <2>2
<1>10. ASSUME NEW b \in Block, SeesRunning(b) \/ SetsBusy(b) \/ PopsNothing(b) \/ SetsDone(b)
       PROVE  BoundsInv'
  <2>1. PICK s \in {"check", "mark", "pop", "done"} : wpc' = [wpc EXCEPT ![b] = s]
    BY <1>10 DEF SeesRunning, SetsBusy, PopsNothing, SetsDone, Go
  <2> QED
    BY <1>0, <1>10, <2>1 DEF SeesRunning, SetsBusy, PopsNothing, SetsDone
<1>11. ASSUME NEW b \in Block, PopsChunk(b) \/ PushesResult(b) PROVE BoundsInv'
  <2>1. PICK s \in {"item", "done"} : wpc' = [wpc EXCEPT ![b] = s]
    BY <1>11 DEF PopsChunk, PushesResult, Go
  <2>2. going' = [going EXCEPT ![b] = <<>>] /\ UNCHANGED <<state, round, cpc>>
    BY <1>11 DEF PopsChunk, PushesResult
  <2> QED
    BY <1>0, <2>1, <2>2
<1>12. ASSUME NEW b \in Block, StartsItem(b) PROVE BoundsInv'
  BY <1>0, <1>12 DEF StartsItem, Go
<1>13. ASSUME NEW b \in Block, ReadsResult(b) PROVE BoundsInv'
  <2>1. /\ going' = [going EXCEPT ![b] = Append(@, port[b].out)]
        /\ wpc[b] = "wait" /\ wpc' = [wpc EXCEPT ![b] = "item"]
        /\ UNCHANGED <<state, round, cpc>>
    BY <1>13 DEF ReadsResult, At, Go
  <2>2. port[b].out \in Outputs /\ going[b] \in Seq(Outputs)
    BY <1>0
  <2>3. Len(Append(going[b], port[b].out)) = Len(going[b]) + 1 /\ Len(going[b]) \in Nat
    BY <2>2
  <2>4. going'[b] = Append(going[b], port[b].out) /\ Len(going[b]) < DSize
    <3>1. going'[b] = Append(going[b], port[b].out)
      BY <1>0, <2>1
    <3>2. Len(going[b]) < DSize
      BY <1>0, <2>1, <2>3
    <3> QED
      BY <3>1, <3>2
  <2>5. Len(going'[b]) <= DSize
    BY <1>0, <2>3, <2>4
  <2> QED
    BY <1>0, <2>1, <2>5
<1>14. ASSUME NEW b \in Block, Computes(b) PROVE BoundsInv'
  BY <1>14 DEF Computes
<1> QED
  BY <1>1, <1>2, <1>3, <1>4, <1>5, <1>6, <1>7, <1>8, <1>9, <1>10, <1>11, <1>12, <1>13,
     <1>14 DEF Next, Main, Collector, Work

\* Types and bounds of the benchmark's state, for any number of blocks, rounds,
\* chunks and items: no thread computes more results than its chunk has items, and
\* the collecting thread speaks to no block that is not there (Block.cpp:132-177,
\* main.cpp:240-304).
THEOREM BlockTypeOK == Spec => []TypeOK
<1>1. ASSUME AllInv, BoundsInv PROVE TypeOK
  <2>1. ASSUME NEW b \in Block PROVE coming[b] \in Chunk \cup {NoChunk}
    <3>1. coming[b] # NoChunk => coming[b] \in Worked
      BY DEF Worked
    <3>2. Worked \subseteq 1 .. pushed
      BY <1>1 DEF AllInv, PlaceInv
    <3>3. pushed \in Nat /\ pushed <= Rounds * InSize /\ Rounds * InSize \in Nat
      BY <1>1, BlocksAssumption DEF AllInv, Inv, Types, CollectInv
    <3>4. 1 .. pushed \subseteq Chunk
      BY <3>3 DEF Chunk
    <3> QED
      BY <3>1, <3>2, <3>4
  <2>2. pushed \in 0 .. Rounds * InSize
    BY <1>1, BlocksAssumption DEF AllInv, Inv, Types, CollectInv
  <2>3. round \in 0 .. Rounds /\ count2 \in 0 .. InSize /\ made \in 0 .. NBlocks
    BY <1>1, BlocksAssumption DEF AllInv, Inv, PortsInv, CollectInv, BoundsInv
  <2>4. ASSUME NEW b \in Block
        PROVE  /\ state[b] \in {"none", "ready", "busy", "done", "stopped"}
               /\ wpc[b] \in {"none", "check", "mark", "pop", "item", "wait", "done"}
               /\ fpga[b] \in {"idle", "running", "done"} /\ Len(going[b]) <= DSize
    <3>1. Types /\ BoundsInv
      BY <1>1 DEF AllInv, Inv
    <3> QED
      BY <3>1, BlocksAssumption DEF Types, BoundsInv
  <2> QED
    BY <2>1, <2>2, <2>3, <2>4 DEF TypeOK
<1>2. AllInv /\ BoundsInv /\ [Next]_vars => BoundsInv'
  BY BoundsStep
<1> QED
  BY <1>1, <1>2, BoundsInit, BlockAllInv, PTL DEF Spec
=============================================================================
