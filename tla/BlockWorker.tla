---------------------------- MODULE BlockWorker ----------------------------
(* The FPGA benchmark (src/test/main.cpp): one thread per FPGA block         *)
(* (src/utils/src/Block.cpp) between two locked queues, the main thread that *)
(* makes the blocks and then fills the first queue, and a thread that        *)
(* empties the second and tells the blocks to run and to stop.               *)
EXTENDS Naturals, Sequences

CONSTANTS
  NBlocks,    \* 11 blocks
  Rounds,     \* 10 rounds, each of which lets one more block run
  InSize,     \* chunks per round
  DSize       \* items in a chunk

ASSUME BlocksAssumption ==
  /\ NBlocks \in Nat /\ InSize \in Nat /\ DSize \in Nat
  /\ Rounds \in 1 .. NBlocks

Block  == 1 .. NBlocks
Chunk  == 1 .. Rounds * InSize   \* in the order the main thread allocates them
NoChunk == 0

VARIABLES
  state,      \* per block: the shared enumeration
  wpc,        \* per block: where its thread is in work()
  coming,     \* per block: the chunk it works on
  going,      \* per block: the results so far
  port,       \* per block: its input and output in the FPGA, and whether set
  fpga,       \* per block: "idle", "running" or "done"
  sendQ,      \* chunks
  receiveQ,   \* results: [id, data]
  mpc,        \* main thread: "construct", "ports", "stop", "send", "join", "exit"
  made,       \* how many blocks the main thread is through with
  pushed,     \* chunks it has sent
  cpc,        \* collecting thread: "none", "ready", "collect", "stop", "over"
  round,      \* its round, from 0
  count2,     \* results it has taken in this round
  collected   \* the results it has taken: [id, data]

worker    == <<state, wpc, coming, going, port, fpga>>
queues    == <<sendQ, receiveQ>>
main      == <<mpc, made, pushed>>
collector == <<cpc, round, count2, collected>>
vars      == <<worker, queues, main, collector>>

\* What a block computes of an item.
Computed(item) == <<"result", item>>
Item(chunk, a) == <<chunk, a>>

------------------------------------------------------------------------------
(* SafeQ: every operation but empty() is one critical section.               *)

Push(q, x)  == Append(q, x)
HasValue(q) == q # <<>>
Front(q)    == Head(q)

\* (slip) pop() returns the front without removing it.
Popped_Kept(q) == q

Popped(q)   == Tail(q)

------------------------------------------------------------------------------
(* Block::work *)

\* The return of main ends every thread.
At(b, step) == mpc # "exit" /\ wpc[b] = step
Go(b, step) == wpc' = [wpc EXCEPT ![b] = step]

\* while (state == stopped) yield
SeesRunning(b) ==
  /\ At(b, "check") /\ state[b] # "stopped"
  /\ Go(b, "mark")
  /\ UNCHANGED <<state, coming, going, port, fpga, queues, main, collector>>

SetsBusy(b) ==
  /\ At(b, "mark")
  /\ state' = [state EXCEPT ![b] = "busy"]
  /\ Go(b, "pop")
  /\ UNCHANGED <<coming, going, port, fpga, queues, main, collector>>

PopsNothing(b) ==
  /\ At(b, "pop") /\ ~HasValue(sendQ)
  /\ Go(b, "done")
  /\ UNCHANGED <<state, coming, going, port, fpga, queues, main, collector>>

PopsChunk(b) ==
  /\ At(b, "pop") /\ HasValue(sendQ)
  /\ coming' = [coming EXCEPT ![b] = Front(sendQ)]
  /\ going' = [going EXCEPT ![b] = <<>>]
  /\ sendQ' = Popped(sendQ)
  /\ Go(b, "item")
  /\ UNCHANGED <<state, port, fpga, receiveQ, main, collector>>

\* (slip) the loop over the items runs once too often.
StartsItem_OneMore(b) ==
  /\ At(b, "item") /\ Len(going[b]) <= DSize
  /\ port' = [port EXCEPT ![b].in = Item(coming[b], Len(going[b]) + 1)]
  /\ fpga' = [fpga EXCEPT ![b] = "running"]
  /\ Go(b, "wait")
  /\ UNCHANGED <<state, coming, going, queues, main, collector>>

\* The next item is written to the block's input and the start bit set.
StartsItem(b) ==
  /\ At(b, "item") /\ Len(going[b]) < DSize
  /\ port' = [port EXCEPT ![b].in = Item(coming[b], Len(going[b]) + 1)]
  /\ fpga' = [fpga EXCEPT ![b] = "running"]
  /\ Go(b, "wait")
  /\ UNCHANGED <<state, coming, going, queues, main, collector>>

\* (slip) the result is read without a look at the done bit.
ReadsResult_Early(b) ==
  /\ At(b, "wait")
  /\ going' = [going EXCEPT ![b] = Append(@, port[b].out)]
  /\ Go(b, "item")
  /\ UNCHANGED <<state, coming, port, fpga, queues, main, collector>>

\* isDone(): the result is read from the block's output.
ReadsResult(b) ==
  /\ At(b, "wait") /\ fpga[b] = "done"
  /\ going' = [going EXCEPT ![b] = Append(@, port[b].out)]
  /\ Go(b, "item")
  /\ UNCHANGED <<state, coming, port, fpga, queues, main, collector>>

PushesResult(b) ==
  /\ At(b, "item") /\ Len(going[b]) = DSize
  /\ receiveQ' = Push(receiveQ, [id |-> coming[b], data |-> going[b]])
  /\ coming' = [coming EXCEPT ![b] = NoChunk]
  /\ going' = [going EXCEPT ![b] = <<>>]
  /\ Go(b, "done")
  /\ UNCHANGED <<state, port, fpga, sendQ, main, collector>>

\* Between this write and the next test of the loop the thread calls nothing and
\* state is a plain variable: the optimized build may take the value it has just
\* written for the one it tests, and go on without reading.
SetsDone(b) ==
  /\ At(b, "done")
  /\ state' = [state EXCEPT ![b] = "done"]
  /\ Go(b, "check") \/ Go(b, "mark")
  /\ UNCHANGED <<coming, going, port, fpga, queues, main, collector>>

\* The FPGA block: the start bit clears its done bit, which it sets again when
\* the output is there.
Computes(b) ==
  /\ fpga[b] = "running"
  /\ fpga' = [fpga EXCEPT ![b] = "done"]
  /\ port' = [port EXCEPT ![b].out = Computed(port[b].in)]
  /\ UNCHANGED <<state, wpc, coming, going, queues, main, collector>>

Work(b) ==
  \/ SeesRunning(b) \/ SetsBusy(b) \/ PopsNothing(b) \/ PopsChunk(b)
  \/ StartsItem(b) \/ ReadsResult(b) \/ PushesResult(b) \/ SetsDone(b)

------------------------------------------------------------------------------
(* The main thread: initEveryting, receivingThread, and the end *)

\* The constructor sets ready and starts the thread.
Constructs ==
  /\ mpc = "construct"
  /\ state' = [state EXCEPT ![made + 1] = "ready"]
  /\ Go(made + 1, "check")
  /\ mpc' = "ports"
  /\ UNCHANGED <<made, pushed, coming, going, port, fpga, queues, collector>>

SetsPorts ==
  /\ mpc = "ports"
  /\ port' = [port EXCEPT ![made + 1].set = TRUE]
  /\ mpc' = "stop"
  /\ UNCHANGED <<made, pushed, state, wpc, coming, going, fpga, queues, collector>>

\* (slip) the collecting and the sending begin with the first block.
StopsNewBlock_Early ==
  /\ mpc = "stop"
  /\ state' = [state EXCEPT ![made + 1] = "stopped"]
  /\ made' = made + 1
  /\ mpc' = IF made + 1 < NBlocks THEN "construct" ELSE "send"
  /\ cpc' = "ready"
  /\ sendQ' = IF made = 0 THEN Push(sendQ, 1) ELSE sendQ
  /\ pushed' = IF made = 0 THEN 1 ELSE pushed
  /\ UNCHANGED <<wpc, coming, going, port, fpga, receiveQ, round, count2, collected>>

\* After the last block the collecting thread is started.
StopsNewBlock ==
  /\ mpc = "stop"
  /\ state' = [state EXCEPT ![made + 1] = "stopped"]
  /\ made' = made + 1
  /\ IF made + 1 < NBlocks THEN mpc' = "construct" /\ UNCHANGED cpc
                           ELSE mpc' = "send" /\ cpc' = "ready"
  /\ UNCHANGED <<pushed, wpc, coming, going, port, fpga, queues, round, count2, collected>>

Sends ==
  /\ mpc = "send" /\ pushed < Rounds * InSize
  /\ sendQ' = Push(sendQ, pushed + 1)
  /\ pushed' = pushed + 1
  /\ UNCHANGED <<mpc, made, receiveQ, worker, collector>>

AllSent ==
  /\ mpc = "send" /\ pushed = Rounds * InSize
  /\ mpc' = "join"
  /\ UNCHANGED <<made, pushed, worker, queues, collector>>

Exits ==
  /\ mpc = "join" /\ cpc = "over"
  /\ mpc' = "exit"
  /\ UNCHANGED <<made, pushed, worker, queues, collector>>

Main == Constructs \/ SetsPorts \/ StopsNewBlock \/ Sends \/ AllSent \/ Exits

------------------------------------------------------------------------------
(* The collecting thread: sendingT *)

\* (slip) the round begins without its block being told.
ReadiesBlock_Not ==
  /\ cpc = "ready" /\ cpc' = "collect" /\ count2' = 0
  /\ UNCHANGED <<worker, queues, main, round, collected>>

\* Round i lets block i run beside those before it.
ReadiesBlock ==
  /\ cpc = "ready"
  /\ state' = [state EXCEPT ![round + 1] = "ready"]
  /\ cpc' = "collect" /\ count2' = 0
  /\ UNCHANGED <<wpc, coming, going, port, fpga, queues, main, round, collected>>

\* empty() is read without the lock; if it says there is a result, pop() looks
\* again under it.
Collects ==
  /\ cpc = "collect" /\ count2 < InSize /\ HasValue(receiveQ)
  /\ collected' = Append(collected, Front(receiveQ))
  /\ receiveQ' = Popped(receiveQ)
  /\ count2' = count2 + 1
  /\ UNCHANGED <<sendQ, worker, main, cpc, round>>

EndsRound ==
  /\ cpc = "collect" /\ count2 = InSize
  /\ round' = IF round + 1 < Rounds THEN round + 1 ELSE 0
  /\ cpc' = IF round + 1 < Rounds THEN "ready" ELSE "stop"
  /\ UNCHANGED <<count2, collected, worker, queues, main>>

\* The ten blocks are told to stop.
StopsBlock ==
  /\ cpc = "stop"
  /\ state' = [state EXCEPT ![round + 1] = "stopped"]
  /\ round' = round + 1
  /\ cpc' = IF round + 1 < Rounds THEN "stop" ELSE "over"
  /\ UNCHANGED <<count2, collected, wpc, coming, going, port, fpga, queues, main>>

Collector == ReadiesBlock \/ Collects \/ EndsRound \/ StopsBlock

------------------------------------------------------------------------------
Init ==
  /\ state = [b \in Block |-> "none"]
  /\ wpc = [b \in Block |-> "none"]
  /\ coming = [b \in Block |-> NoChunk] /\ going = [b \in Block |-> <<>>]
  /\ port = [b \in Block |-> [in |-> <<>>, out |-> <<>>, set |-> FALSE]]
  /\ fpga = [b \in Block |-> "idle"]
  /\ sendQ = <<>> /\ receiveQ = <<>>
  /\ mpc = "construct" /\ made = 0 /\ pushed = 0
  /\ cpc = "none" /\ round = 0 /\ count2 = 0 /\ collected = <<>>

Next == Main \/ Collector \/ \E b \in Block : Work(b) \/ Computes(b)

\* The system schedules every thread, and the FPGA computes.
Fairness ==
  /\ WF_vars(Main) /\ WF_vars(Collector)
  /\ \A b \in Block : WF_vars(Work(b)) /\ WF_vars(Computes(b))

Spec == Init /\ [][Next]_vars
FairSpec == Spec /\ Fairness
=============================================================================
