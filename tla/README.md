# The Distributed Computing Framework in TLA+

The repository contains a server that distributes the inputs of a user over a set of
compute nodes (`src/server`), a set of FPGA compute blocks driven by threads
(`src/utils`, `src/test`), and the code that loads a bitstream into the FPGA of a node
(`src/node`). This directory holds a TLA+ model of it, TLC configurations that check the
model on small instances, and TLAPS proofs for instances of any size.

## 1. The system

### 1.1 Parts, their state and their operations

| Part | Source | State | Operations |
|---|---|---|---|
| Message codec | `server/Message.hpp` | none; a message is a header (type, payload size) and a payload | constructors `new_*`, validators `is_valid_*`, size computations |
| Connection | `server/Connection.hpp` | a socket | `receive_message` (header, validation, payload, validation), `send_message` (several partial writes), `close` |
| Async primitives | `server/Counter.hpp`, `Event.hpp`, `Queue.hpp`, `Stack.hpp` | a value and a timer that never expires; waiting coroutines wait on the timer | `incr`, `decr`, `async_wait_zero`; `notify_one/all`, `async_wait`; `push`, `pop`, `async_pop` |
| User session | `server/User_Queue.hpp`, `User_Stack.hpp` | configuration, ready nodes, three counters, stop event, one coroutine per node and per write | `start`, `_configure_nodes`, `_main_loop`, `_dispatch_input`, `_send_input_to_node`, `_receiver_loop` |
| Server | `server/Server.hpp`, `main.cpp` | two acceptors, the list of nodes | accept nodes for ever, accept one user and run its session |
| Test node | `server/test_node.cpp` | current configuration | take a configuration, then one output per input |
| Test user | `server/test_user.cpp` | messages sent and received, `sending_done` | configure, send and receive concurrently, close |
| Block worker, SafeQ | `utils/` | a thread, a state, a queue with a mutex | `start`, `isDone`, `work`; `push`, `pop`, `empty` |
| FPGA benchmark | `test/main.cpp` | blocks, two threads | send chunks, collect results, stop the blocks |
| FPGA manager | `node/FPGAconfig/alt_fpga_manager.c`, `writeConfig.hpp` | registers of the FPGA manager | the configuration sequence and its error paths |
| Node agent | `node/main.cpp` | none | a skeleton |
| DMA driver, register headers | `node/FPGAconfig/alt_dma.*`, `hps.h`, ... | vendor code, not compiled here or without behaviour | |

All server code runs on one thread, which runs the `io_context`. Coroutines interleave only
where they `co_await` an operation that does not complete at once; between two such points
a coroutine runs alone. Coroutines meet in the members of `User`: they wake each other
through the timers inside the primitives, where a wake-up *posts* the resumption of the
waiter, which runs later, after whatever is already in the run queue. Peers interact with
the session by messages on TCP connections, which keep order, and by closing or dying.

### 1.2 How a session runs

The user connects and sends a configuration. The session hands it to every node,
concurrently, and counts the nodes in progress (`config_counter`). Nodes that accept enter
the container of ready nodes; when the counter is zero the user gets a response. A receiver
loop is started per ready node (`_node_receiver_counter`). Then the main coroutine reads
messages: an input increments `_data_counter`, takes a ready node - or waits for one - and
a coroutine is spawned that writes the input to the node. When the write has completed the
node is ready again, at once: several inputs may be in one node. When the write fails the
node is dropped and the input dispatched again. A receiver loop passes outputs to the user
and decrements `_data_counter`. A new configuration waits for `_data_counter` to drop to
zero, stops the receiver loops with an event, waits for them, and ends the session.

### 1.3 What is hard, and what makes it correct

* Several coroutines push and pop the ready nodes while others wait for one: every node has
  one user at a time, no wake-up is lost, no input is lost or doubled by a retry.
* Three counters are waited on to be zero before something is announced or destroyed:
  they must count exactly what is in progress, in every order of completions and failures.
* Coroutines refer to the `User`, and completion handlers to a counter in another
  coroutine's frame: nothing may outlive what it refers to.
* The configuration is replaced while outputs for the old one are on their way.
* Something must eventually happen: accepted inputs are answered, a reconfiguration and
  the user's leaving end the session, a failing node does not stop the others.
* Three programs depend on each other's end: the two loops of a user share a connection and
  two counters, the server ends with its first session, and any program may be killed.
* Sizes are computed modulo 2^32 by the sender of a message and checked again by every
  receiver; what the validators let through must still mean the same.
* The threads of the benchmark write the state they test, test a queue without its lock, and
  are started before their ports are set.
* The configuration of the FPGA polls hardware that moves on its own, with a timeout at every
  step and clean-up on every error path; the registers outlive the process.

`PROJECT.json` lists each of these hazards at its line, with the properties that a mistake
there would break, or with the reason why there is none.

## 2. Modules

| Module | What it is |
|---|---|
| `AsyncPrimitives` | the values of Counter, Queue and Stack and the operations on them, with the width of `uint` and the discipline (queue or stack) as constants |
| `UserSession` | class `User` and its peers: the core of the project |
| `UserSessionProperties` | safety, action and liveness properties of the session |
| `JobService` | what a session promises its user: accept, answer at most once, drain before closing |
| `UserSessionRefinement` | the mapping under which `UserSession` implements `JobService` |
| `MCUserSession` | the instances for TLC |
| `UserSessionProofs` | its types, writers and pool, proved with TLAPS |
| `UserSessionInputProofs` | where each input is; that it is held once |
| `UserSessionCounterProofs` | what the counters count, that a session implements `JobService`, and which failures its undefined behaviour needs |
| `Connection` | class `Connection` at both ends of one direction of a TCP stream, and its properties |
| `MCConnection` | the instances for TLC |
| `ConnectionProofs` | its types, and that what failed to be sent does not arrive |
| `ConnectionOrderProofs` | that one writer's messages arrive whole and in order |
| `MessageCodec` | the sizes, constructors and validators of messages, with the width of `uint32_t` as a constant |
| `Deployment` | the server with its acceptors, the users and the nodes, around what a session promises |
| `DeploymentProperties`, `MCDeployment`, `DeploymentProofs` | its properties, instances and theorems |
| `BlockWorker` | the FPGA benchmark: a thread per block, two queues, the thread that sends and the one that collects |
| `BlockWorkerProperties`, `BlockWorkerProofs` | its properties, the mapping under which it implements `JobService`, and its theorems |
| `FpgaRegisters` | the registers of the FPGA manager and the FPGA behind them |
| `FpgaManager` | the driver: `writeFPGAconfig`, the configuration sequence, the other functions |
| `FpgaManagerProperties`, `MCFpgaManager`, `FpgaManagerProofs` | its properties, instances and theorems |

`UserSession` EXTENDS `AsyncPrimitives`; the properties, the refinement and the proofs
EXTEND `UserSession`. `Connection` is the layer below: what a session takes for one message
that arrives or fails. `Deployment` EXTENDS `MessageCodec` and is the layer above: of a
session it keeps what the other programs can see. `FpgaManager` EXTENDS `FpgaRegisters`.
`JobService` is used three times: by the session, by the deployment and by the benchmark, all
of which take inputs, answer each at most once, and close only when they may. That the session
and the deployment implement the same service is what lets `Deployment` count inputs where
`UserSession` follows each of them.

A definition called `Operation_Slip` is `Operation` with a plausible mistake; no
specification uses it. Putting a slip in the place of the operation shows that a property
notices (`mutants` in `PROJECT.json`).

### 2.1 UserSession: state and actions against the code

A step is what one coroutine does between two suspensions.

| Model | Code |
|---|---|
| `pc` | where `start()` or what it awaits is suspended |
| `config`, `node_config` | output size of `*_config` now, and of the one the node was sent |
| `nodes_queue` | `_nodes_queue` / `_nodes_stack`, next node to pop first |
| `waiting`, `woken` | the waiters of `async_pop`'s timer; the waits that were cancelled and whose coroutine is not yet resumed |
| `config_counter`, `data_counter`, `node_receiver_counter` | the three Counters |
| `task[n]`, `received[n]` | the coroutine of node n: `_configure_node`, then `_receiver_loop` with the output it holds |
| `stage[i]`, `target[i]` | input i: not yet sent, waiting for a node (in the main coroutine or in a retry), being written to `target[i]`, sent, answered |
| `fault` | undefined behaviour met: a pop of an empty container, a destroyed counter, a destroyed User |
| `node_up`, `node_in`, `node_out`, `user_up` | the peers and their connections |

`ReceiveFirstConfig`, `ConfigWaitZero` and `ConfigResponseSent` are `start` and
`_configure_nodes`; `ReceiveInput`, `ReceiveConfig`, `Drained`, `Joined`, `ReceiveFails` and
`ReceiveInvalid` are the branches of `_main_loop`; `Dispatch`, `PopResumes`,
`SendSucceeds` and `SendFails` are `_dispatch_input` and `_send_input_to_node` with
`async_pop` inside; `Configure*` and `Receiver*` are the coroutines of a node with their
completion handlers; `TouchesDestroyedUser` is any of them resuming after the session's
end; `NodeProcesses`, `NodeFails` and `UserCloses` are the peers.

Two details of the code carry most of the behaviour:

* `push()` cancels one waiter; the waiter is resumed later, and then pops *without looking
  again* (`Queue.hpp:57`). The model keeps the cancelled waiters in `woken` and lets any
  other step come between.
* `_receiver_loop` waits for a message *or* the stop event. A loop that has read a message
  has had its wait on the event cancelled, so `notify_all()` does not reach it: `Drained`
  cancels the loops in `recv` only.

### 2.2 Connection: state and actions against the code

| Model | Code |
|---|---|
| `sending[w]`, `offset[w]` | the `send_message` a coroutine awaits, and how far `buf` has advanced in `_write_exactly` |
| `wire`, `connected` | the bytes between the two programs, and whether both are still there |
| `received`, `expected`, `reading` | what `_read_exactly` has, what it was asked for, and whether anyone calls `receive_message` |
| `sends`, `failed`, `delivered` | messages taken by `send_message`, those it returned an error for, and what `receive_message` returned |

`SendMessage` and `SendRefuses` start a `send_message`; each `WriteSome` is the completion
of one `async_write_some` with any number of units that fits, `WriteFails` one with an
error. `ReadSome`, `ReadHeader` and `ReadPayload` are the completions of an
`async_read_some` that leave something to read, complete the header, and complete the
payload; `ReadFails` is one with an error. The next `receive_message` follows at once, as
in every loop of the programs, and none follows an error.

The two models meet in three places. `NodeHasOneWriter` of the session is the assumption
under which a node's connection delivers in order (`DeliveredInOrder`). `SendFails` of the
session puts nothing into the node, which is `FailedIsNotDelivered` here. And the session
lets a result arrive whole although several loops write to the user: the run `MixedResults`
shows that the code does not see to that.

### 2.3 Deployment: state and actions against the code

| Model | Code |
|---|---|
| `node_server`, `user_server` | the two coroutines of `Server::run`, joined by `\|\|` |
| `running` | `ioc.run()` has not returned; its end closes every connection |
| `node_conn[n]`, `user_conn[u]` | where the server has the connection: in the backlog of the acceptor, in `_nodes`, in the session, destroyed |
| `stage`, `pending`, `loops_left` | the session as the others see it: how far it is, what it accepted and has not answered, and whether receiver loops still run after its end |
| `node_pc[n]` | `co_main` of `test_node.cpp`: waits for its configuration, processes, ended, killed |
| `user_pc[u]`, `tx[u]`, `rx[u]` | `co_main`, `sending_loop` and `receiving_loop` of `test_user.cpp` |
| `sending_done`, `sent`, `received` | `sending_done`, `messages_sent`, `messages_received` |
| `work[u]` | the blocks, sizes and count the user asks for, any of `Workloads[u]`; `co_main` has one set of sizes written into it |

`AcceptNode` and `AcceptUser` are the loops of the acceptors; `Returns` is the end of the
session; `AcceptorCancelled` and `ProcessEnds` the end of `Server::run`: the operator
`||` of the awaitables cancels the acceptor that is left, whose next `co_await` throws.
`FirstConfig` to `UserGone`, `Answers`, `LosesInput` and `DropsNode` are what a session may
do; `UserSession` is how it does it. `TimerExpires` to `UserEnds` are the two loops and the
end of the user's program, `NodeConnects` to `NodeEnds` the node's.

Every message passes through `MessageCodec`: the user builds it (`NewConfig`, `NewData`),
`Received` is what the receiver allocates for a header it read, and each receiver applies
its own validators. So a session of `Deployment` refuses exactly the sizes that the code
refuses, and those that it wrongly accepts go on to the node and back.

### 2.4 BlockWorker: state and actions against the code

| Model | Code |
|---|---|
| `state[b]` | `Block::state`, written by three threads without a lock |
| `wpc[b]`, `coming[b]`, `going[b]` | where `Block::work` is, and its two locals |
| `port[b]`, `fpga[b]` | input and output of the block in the FPGA, `setInput`/`setOutput` done, start and done bits |
| `sendQ`, `receiveQ` | the two `SafeQ` |
| `mpc`, `made`, `pushed` | the main thread: `initEveryting`, `receivingThread`, the join |
| `cpc`, `round`, `count2`, `collected` | the thread `sendingT` |

Every operation of `SafeQ` but `empty()` is one critical section and one step. `empty()` is
read without the lock; only the collecting thread acts on it, it is the only one to pop that
queue, and so its test and its pop are one step too. `state` is neither atomic nor guarded,
and the build optimizes (`src/CMakeLists.txt`, -O3): after its own write a worker may take
the written value for the one it tests (`SetsDone` goes to the test or past it). A stop
request that falls between the test and the next write of the worker is overwritten, and
the worker goes on.

### 2.5 FpgaManager and FpgaRegisters: state and actions against the code

| Model | Code |
|---|---|
| `pc` | the step of `alt_fpga_internal_configure` and its helpers; names follow the comments' "Step" numbers |
| `ctrl_reg`, `status`, `data_status`, `polls`, `left` | `ctrl_reg`, the two results, what is left of a timeout and of `data_limit` |
| `call`, `result`, `sent`, `axi` | the running call, what it returned, the progress of the stream and of the words of `writeaxi` |
| `bits`, `cdratio`, `gpo`, `inten`, `inttype`, `polarity` | the registers the driver writes |
| `mode`, `msel`, `count`, `dcntdone`, `edges` | the registers the hardware writes |
| `fed`, `seen`, `fabric` | what the FPGA has taken, what it reports, and what it runs |

Each access to a register is a step of its own wherever the FPGA could act between two, and
so is each poll. A loop of the code looks `Polls + 1` times. `HardwareStep` is the FPGA: it
resets while nCONFIG is pulled, takes words in its configuration phase, finds errors, completes,
initializes, loses its power. Nothing makes it move: it may be stuck anywhere. `Killed` is the
end of the calling process in the middle of a configuration, after which the registers keep
what they hold and the next process calls again.

`FpgaRegisters` models the hardware, which is not code of the repository: from the descriptions
of the registers in `alt_fpgamgr.h` and from what the driver relies on. `SuccessMeansThisImage`
rests on that the driver checks all it must, not on the FPGA being well-behaved.

### 2.6 Abstractions

* A configuration is its `output_size`, and every output is one block of that size, so an
  output of node n is valid exactly when `node_config[n] % config = 0`. Inputs the user
  sends are valid, or `ReceiveInvalid` stands for them.
* In the session messages arrive whole. A connection that fails in the middle of a message is a
  connection that fails before it.
* The completion of a write and the arrival of the message are one step. The handler of the
  write is in the run queue before any answer to it can arrive, so no coroutine can tell
  the difference.
* A write to a node that went down may fail, or succeed and lose the input. A node may go
  down at any time, and the last of its outputs are then lost, as many as the network likes.
* `_val` of a new Counter is any member of the constant `Garbage`: the class never
  initialises it. In `SessionQueue` each counter starts at 0 or at 4, independently of the
  others. In the fair runs it starts at 0, as the authors had in mind: a wait for a counter
  that starts above zero never ends, and so no progress can be promised (3.2). The theorems
  hold for every `Garbage`; those that need a counter to count say "as long as no `incr()`
  passes `UIntMax`" (4.1).
* After a step with undefined behaviour the model stops. `FirstConfigFails`,
  `ReceiveInvalid` and `UserCloses` happen only when `UserMayLeave` says so; only members of
  `FailingNodes` refuse a configuration or go down.
* In `Connection` bytes are units that know which message they were written for; a header
  is refused, or read as the size of any message, when the units in its place are no header.
  The cancellation of a `receive_message` by the stop event is left out: nobody reads that
  connection again.
* `ReceiveFails` stands for every error of `receive_message`, refused headers included.
* Delays, statistics, messages printed and the payloads are left out.
* In `Deployment` the inputs of one user are counted: they differ in nothing but their id. A
  user sends at most `MaxSent` of them in the ten seconds it has, and `Capacity` of them fit
  into its connection. `test_user.cpp` asks for one pair of sizes, which is the first of the
  workloads in `MCDeployment`; the model takes any others but zero, since the protocol is
  open to other users. A message written to a server that has closed may be lost, or fail.
* `Modulus`, 128 in the run, stands for 2^32. The size of a header or of an id keeps its
  value, so a size wraps in the run where it would in the code for some larger one.
* In `BlockWorker` the copying of the words of an item is one access, and so is the test of
  the done bit. The start bit clears the done bit of the block's previous item: this is the
  hardware's doing, and the code relies on it. The unlocked `empty()` is taken to be read
  each time round its loop. The sleeps and the measurements are left out. The program
  numbers the chunks anew in every round; the model tells them all apart.
* In `FpgaManager` a bitstream is its bytes, told apart by position; a word is four of them.
  `DCLKCNT` is 4, a long count or 0. The registers' one-bit fields are names in a set.
  The mapping of the registers into the process (`hps.h`) is left out. `UseDclk` is
  `_ALT_FPGA_USE_DCLK`, which is 0 unless the build defines it
  (`alt_fpga_manager.c:64-66`). The run `FpgaManager` has it TRUE, which adds step 14 and its
  way to fail to the same sequence; `OddBitstream` has it FALSE, and the theorems hold for both.

## 3. What is checked

| Run | Instance | Shows |
|---|---|---|
| `SessionQueue` | a queue, 3 nodes and 3 inputs with symmetry, everything may fail, the new configuration fits or does not, a counter starts at 0 or 4 | `NodeHasOneWriter`, `NoLostWakeup`, `InputHeldOnce`, `CountersExact`, `NothingDangling`, `DroppedNodeStaysOut`, `ReconfigurationIsClean`, `ImplementsService` |
| `SessionFailures` | a stack, 2 nodes of which one fails, 3 inputs, the user leaves; fair | `TypeOK`, `RetryDelivered`, `ConfigurationEnds`, `UserCloseEndsSession` |
| `SessionReliable` | a queue, 2 nodes, 3 inputs, nothing fails; fair | `NoFault`, `InputAnswered`, `ReconfigurationEnds`, `ImplementsFairService` |
| `ConnectionOneWriter` | one writer, four messages of different sizes, one of them invalid; may fail; fair | `TypeOK`, `DeliveredInOrder`, `MessagesArriveWhole`, `FailedIsNotDelivered`, `SentIsDelivered` |
| `Deployment` | 2 users, one of them with any of nine workloads, 2 nodes, one node and one user may be killed; fair | `TypeOK`, `SizesSurvive`, `NothingOutstanding`, `ImplementsService`, `TestEnds`, `LoopsEndTogether`, `ServerStops` |
| `BlockWorker` | 2 blocks, 2 rounds of 2 chunks of 2 items; fair | `TypeOK`, `ChunkInOnePlace`, `OwnResults`, `PortsSetBeforeUse`, `BenchmarkEnds`, `ImplementsFairService` |
| `FpgaManager` | up to 3 calls of any function, a power cut, a killed process, a board with valid and reserved mode pins; fair | `TypeOK`, `ControlGivenBack`, `NoStaleInterrupt`, `StreamErrorReported`, `SuccessMeansThisImage`, `ConfigureReturns` |

Bounds. Two nodes let a retry compete with the main loop for the one that is left; a third lets
two retries compete while the main coroutine waits too. Three inputs let one be answered while
one is written and one waits. A user sends each input once and at most one new configuration,
because the session ends after it. `UIntMax` is 7, so that a counter that starts at 4 can count
three nodes or inputs and does not wrap. A header is two units, so that it can arrive in
pieces, and the buffers hold three: no more than the shortest message, but enough for the end
of one and the beginning of the next; payloads of one, two and three units are shorter than,
equal to and longer than a header. In `Deployment` two users let one be served while the other
waits in the backlog, which is all it can ever do; the workloads are the benchmark's and one
for each way a size can wrap or be refused (`MCDeployment` names them). Two blocks let one be
told to run while the other works; two chunks let a block work on one while the other is queued
or done, and two items let the result of one be there when the next is started. The program has
11 blocks and readies 10 of them, one per round; with as many rounds as blocks the run leaves
out a block that is never readied, which only waits to be told to stop - the theorems of 4.5
cover any number of both. In `FpgaManager` a bitstream of two words can be sent in part, one
that is too long meets the limit on the data, and with three calls the second can meet what a
first that was killed or timed out has left behind, and a third what both have.

Deadlock is not checked: a session, a connection, a benchmark or a driver that has ended has
no step left, and the server ends with its first session.

Fairness, always weak, and only what somebody owes:

* Session: each handler that is ready is run - `io_context::run()` leaves none out; a write
  to a peer that is up completes and a node that is up answers, since `test_node.cpp` waits
  for nothing but its next input. The user owes nothing, except that the server notices its
  end. Failures are never forced.
* Connection: a write completes when there is space and a read when there are bytes.
* Deployment: each program goes on with what it can do. Nobody need connect or die, and
  nothing is owed by receiver loops that run on a destroyed `User`.
* BlockWorker: the system schedules every thread, and a block that was started finishes.
* FpgaManager: the calling thread runs. The FPGA owes nothing, nor do the callers.

### 3.1 Where the code does not do what it says

Each is a run that TLC ends with a counterexample.

* `PopFromEmpty` - a write fails while the main coroutine waits for a node. Another write
  completes, its node is pushed and the main coroutine's wait cancelled; before that
  coroutine is resumed, the failed write's coroutine dispatches its input and takes the
  node. The main coroutine then pops an empty container.
* `DanglingUser` - the user closes its connection, as `test_user.cpp` does after every
  run. `_main_loop` returns, the `User` is destroyed, and its receiver loops resume.
* `DrainHangs` - a new configuration is stored before the pending inputs are waited for;
  outputs for the old one are then refused by size, the loops that read them end, and
  `_data_counter` stays above zero. The same wait hangs when the user closes during it,
  since the writes to the user fail and the main coroutine no longer reads.
* `MixedResults` - two receiver loops send results to the user at once. Each writes its
  result in parts, the parts mix, and the user reads a header or a message nobody sent.
  Only large results show it: a result that fits into the free part of the socket's buffer
  is written by one call.
* `OddBitstream` - the last bytes of a bitstream whose length is no multiple of four are
  taken from its beginning: `alt_fpga_internal_writeaxi` indexes the buffer with a length
  that by then is that of the rest (`alt_fpga_manager.c:206-211`).

### 3.2 Seen while modelling, without a run

* `Counter::_val` is not initialised. With the largest value in that memory the first
  `incr()` makes the counter zero, and a configuration is announced while nodes are still
  being configured. With any other value but zero a wait for that counter never ends.
* `hps.h:75-76` opens a file descriptor into a local variable, and `hps.h:84` closes the
  global `__fd`, which nothing sets: the one opened stays open, and descriptor 0 is closed.
* The blocks that were told to stop may go on, so that a later round of the benchmark may use
  more of them than it means to (`Block.cpp:98-107`). No result is wrong by it.
* `README.md:5` of the repository says the server can support multiple users; it serves one,
  and nodes that connect during its session are never used.
* `alt_fpgamgr.h:165-200` gives ratios of 4 and 8 for encrypted and compressed data on the
  16-bit bus; the driver programs 2 and 4.
* `alt_fpga_manager.h:96-132` lets `alt_fpga_control_enable` fail when the manager already
  has the control; the function never fails.
* No validator refuses a configuration with a size of zero, by which the next one divides.
* `is_valid_data` lets an input through whose size has wrapped to less than its id;
  `get_data_size` (`Message.hpp:242`) then wraps around too, and the node takes it for a large
  one. `SizesSurvive` is about the other inputs.

## 4. What is proved

### 4.1 The session

`UserSessionProofs` has four theorems, for every finite `Node` and `Input`, every
`UIntMax > 0`, queue and stack, any sets of sizes, failing nodes and garbage:

* `SessionTypeOK`: `Spec => []TypeOK`. The counters stay in `0 .. UIntMax`.
* `SessionNodeHasOneWriter`: `Spec => []NodeHasOneWriter`.
* `SessionNoLostWakeup`: `Spec => []NoLostWakeup`.
* `SessionDroppedNodeStaysOut`: `Spec => DroppedNodeStaysOut`.

They rest on the inductive invariant `WriterInv`. `TypeOK` alone is not inductive:
`SendSucceeds` pushes `target[i]`, which is a node only if every write has one
(`WritersHaveNode`). `NodeHasOneWriter` is not either: `ReceiveFirstConfig` makes every
node unconfigured, which is sound only because none is in the pool then, that is, because
all are idle before the first configuration. The step lemma splits `Next` into quiet steps,
which leave the pool alone (`StepKinds`), and the few that move nodes: taking one
(`TakeKeepsWriters`), putting one back (`PushKeepsWriters`), ending writes or reordering
the pool (`FewerKeepWriters`). Lemmas about `Push`, `Pop` and `Repushed` say what they do
to the items and to their being distinct, for queue and stack at once. The assumptions are
those named in `AsyncPrimitives` and `UserSession`.

`UserSessionInputProofs` has one theorem under the same assumptions, for any `Garbage`:

* `InputIsHeldOnce`: `Spec => []InputHeldOnce`.

The property counts the places of an input; its invariant `PlaceInv` says which places a stage
allows. An input has been sent exactly if some node may have it (`HandsInv`), no two nodes have
the same one, and no queue has one twice; a loop has an output in its hands exactly while it
passes it on (`LoopInv`); a coroutine that waits for a node has none yet (`WaitInv`,
`TargetInv`). Most steps move no input (`MovingOrStill`); each of the others takes one from
where the invariant says it is. The count follows at the end (`HeldOnceInPlace`), by lemmas on
the cardinality of sets with one member at most.

`UserSessionCounterProofs` has ten theorems, again for any `Garbage` and under no further
assumption on the constants. What they need is said of the behaviour, by three formulas of
`UserSessionProperties`: `NoCounterWraps` (no `incr()` is called on a counter at `UIntMax`),
`NoWriteFails` (of an input to a node) and `MainLoopReads` (no read of `_main_loop` fails or
returns an invalid message).

* `CountersAreExact`: `Spec /\ NoCounterWraps => []CountersExact /\ CounterOffsetsStay`. A
  counter is what it counts plus what its memory held first, and that never changes.
* `ConfigCounterOutlivesHandlers`: `Spec /\ NoCounterWraps => []NothingDangling`.
* `ReconfigurationEndsClean`: `Spec /\ NoCounterWraps => ReconfigurationIsClean`.
* `SessionImplementsService`: `Spec /\ NoCounterWraps => ImplementsService`, the refinement of
  `JobService`.
* `FittingCountersDoNotWrap`: `Spec => NoCounterWraps` when what the memory held leaves room for
  as many nodes and inputs as there are (`CountersFit`).
* `AnswersCountInputsOff`: `Spec => CountedOffWhenAnswered`. The counter of inputs goes down only
  by an answer - or by an `incr()` that wraps.
* `EmptyPopNeedsFailedWrite`: `Spec /\ NoWriteFails => []NoPopFromEmpty`.
* `DanglingUserNeedsFailedRead`: `Spec /\ NoCounterWraps /\ MainLoopReads => []NoDanglingUser`.
* `SessionWithoutFailures`: under all three, `[]NoFault`.
* `StayingPeersDoNotFail`: `Spec => NoWriteFails /\ MainLoopReads` when no node fails and the user
  stays.

The premises are not there to make the proofs easy: without them the conclusions are false. A
counter whose memory holds `UIntMax` is zero after the first `incr()`, and the wait ends while
what it waits for goes on (3.2); `PopFromEmpty` and `DanglingUser` are counterexamples to the two
about failures. With 32 bits only a memory within the number of nodes and inputs of 2^32 leads
to a wrap, so these theorems are about all other sessions.

The invariant `CountInv` gives each counter the set it counts - the nodes being configured, the
inputs accepted and not answered, the receiver loops - and says that the counter less the size
of that set is what its memory may have held. What a step adds to a set or removes from
it, its `incr` or `decr` adds to the counter. A counter above garbage is zero only if the
garbage was and its set is empty (`ZeroCountsNothing`): so a wait may never end, but never ends
too early. That is what keeps the counter of `_configure_nodes` alive, and what lets a
reconfigured session close under the service's guard, which asks for every input to be
answered.

The last theorems say what the faults of the findings hang on. Unless a write fails there is
no retry, so the main coroutine is the only one that waits for a node or is woken
(`OnlyMainWaits`), and nobody takes the node it was woken for. As long as the main loop can
read, the session ends by a new configuration, which leaves no coroutine behind, or before
there is one (`EndsClean`).

### 4.2 The connection

`ConnectionProofs` has two theorems, for any number of writers, any messages and sizes and
any capacity, from the assumptions named in `Connection`:

* `ConnectionTypeOK`: `Spec => []TypeOK`, with the bounds of the buffers.
* `ConnectionFailedIsNotDelivered`: `Spec => []FailedIsNotDelivered`.

The second rests on `SendInv`. That no failed message is among the delivered ones is not
inductive, since a failed message might still be on the stream. `SendInv` follows the *last
unit* of each message: it is written only by the step that ends its `send_message` well, so
while a message is being sent, and after it failed, the unit is neither on the stream nor
read (`SendingIsTaken`, `ArrivedIsTaken`), and `receive_message` cannot return the message
without it (`MessageReadLemma`). `TakenOnce` and `OnlyValidTaken` keep a message from being
sent a second time. Steps of the reader and the loss of the connection only take units
away (`ReaderKeepsSendInv`).

`ConnectionOrderProofs` has two theorems more, each with the assumption `OneWriter`, that
`Writer` has at most one member (the run `MixedResults` shows that it is needed):

* `ConnectionDeliversInOrder`: `Spec => []DeliveredInOrder`.
* `ConnectionMessagesArriveWhole`: `Spec => []MessagesArriveWhole`.

The invariant `OrderInv` says that there is a layout of the stream: a position `start[i]` for
each message taken, the next one behind its end. A unit on the stream is the one of its
position, counted from where the reader is (`OnStream`); the stream ends where the writer is,
or before that when the connection was lost (`EndOfStream`); and what was received is the
beginning of the message after those delivered (`ReceivesNext`). Only `SendMessage` changes
the layout, by one position at its end; a write and a read move the two ends of the stream.

### 4.3 The deployment

`DeploymentProofs` has four theorems, for any finite set of nodes, any users, workloads,
bounds and modulus, from the assumptions named in `MessageCodec` and `Deployment`:

* `DeploymentTypeOK`: `Spec => []TypeOK`.
* `DeploymentNothingOutstanding`: `Spec => []NothingOutstanding`.
* `DeploymentSizesSurvive`: `Spec => []SizesSurvive`.
* `DeploymentImplementsService`: `Spec => ImplementsService`, the refinement of `JobService`.

`NothingOutstanding` is about the moment at which the receiving loop leaves, and everything
before that moment must lead to it. The invariant counts (`Account`): read, on the way back,
pending in the session and on the way there are together no more than the user sent - no
more, and not exactly as many, because a killed node loses inputs. With
`received >= sent` at the loop's end (`LoopsAgree`) nothing can be left. `NothingBefore`
says why a new session starts with nothing pending. `TypeOK` is part of it, since
its bounds on `pending` and `to_user` follow from `Account`.

`SizesSurvive` needs to know which configuration a size is read from: once the first message is
taken, the session has the configuration of a program that was started, which passed
`is_valid_message`, and a node that is ready has accepted it (`FitInv`). What remains is
arithmetic modulo `Modulus`, of which the theorem's lemmas say when a sum that wrapped and a
difference that wraps give back what was put in: a bitstream as long as `payload_size` says, and
a result no larger than its input, since a node refuses outputs that are larger than inputs.

For the refinement the inputs of the session's user are named by the order in which they are
taken: `Taken` of them are with the service, and `Answered` have been written back. A session
that begins has neither sent nor received anything, a user's connection that is not yet accepted
carries nothing, and only valid inputs are pending (`ServiceInv`). A service step is then a step
of one of the two counters or the end of an open session; what kills a user or a node is a step
that the service does not see. Draining is not part of it: `test_user.cpp` sends one
configuration, so only `UserSession` has sessions that end with another.

### 4.4 The configuration of the FPGA

`FpgaManagerProofs` has seven theorems, for any bitstreams, streams, timeouts, limits, masks,
power cuts and kills, from the assumptions named in `FpgaRegisters` and `FpgaManager`:

* `FpgaControlGivenBack`: `Spec => []ControlGivenBack`.
* `FpgaStreamErrorReported`: `Spec => []StreamErrorReported`.
* `FpgaTypeOK`: `Spec => []TypeOK`.
* `FpgaSuccessMeansThisImage`: `Spec => SuccessMeansThisImage`.
* `FpgaNoStaleInterrupt`: `Spec => []NoStaleInterrupt`.
* `FpgaWholeWordsReachIt`: `Spec => ReachesFpga`.
* `FpgaCallIsBounded`: a call takes at most `CallSteps` steps.

The driver keeps a copy of the control register and writes only what it derives from the copy.
The invariant therefore begins with `ctrl_reg = bits` during a configuration: without it, a
step that clears one bit of the copy might set another in the register. From it follows at
which steps the pull on nCONFIG is off (`Released`) and the data bus on (`Transferring`),
and so what every `return` leaves. `StreamInv` follows the error of the stream from
the step that meets it, over the steps that may fail after it, to the result. `TypeOK` is proved in
three parts - what the FPGA writes, what the driver writes, and the thread - from a lemma on
what each access leaves alone.

`FpgaSuccessMeansThisImage` assumes `NamesAreOwn`: no image is empty, and a request that has
the name of an image is that image. Its invariant says that the FPGA in reset has no words, and
in user mode those of the image it runs (`FpgaInv`), and that step 5 goes on only after the
FPGA was seen in reset, so that all it has from step 9 on are words of the call's bitstream
(`SentInv`), however the stream cut them. An image of such words has the name of the request
(`WordsAreOwn`).

`FpgaNoStaleInterrupt` follows the edges latched since step 7 (`EdgeInv`). While the power
lasts, the phases an FPGA can be in after the reset fix which pins it drives (`PhaseInv`). So
after step 7 cleared the latches, only a real error latches an edge of nSTATUS, and an FPGA with
such an error does not reach user mode.

`FpgaWholeWordsReachIt` is the scope of the finding `OddBitstream`: a bitstream sent in one
piece to an FPGA that keeps its power arrives unchanged *exactly if* its length is a multiple of
four or below four. Its invariant (`DataInv`) says that what the FPGA has and what is still to be
written are together the driver's words, since the data bus is on and the FPGA, past its reset,
does not go back to one. The rest is about the words alone (`AxiContents`, `WordsAsWritten`).

`FpgaCallIsBounded` is what `ConfigureReturns` rests on, without its fairness: `Remaining`, an
upper bound of the steps a call still takes, falls with each of its steps and with no other,
from `6 * Polls + 3 * DataLimit + 19`. Every timeout counts once and each byte three times, for
the call of the stream that brought it, the word it is written in, and the end of the write. A
stream that returns 0 has ended; the bound needs that, and `StreamChunk` takes at least a byte.

### 4.5 The benchmark

`BlockWorkerProofs` has five theorems, for any number of blocks, rounds, chunks and items,
from `BlocksAssumption`:

* `BlockTypeOK`: `Spec => []TypeOK`.
* `BlockPortsSetBeforeUse`: `Spec => []PortsSetBeforeUse`.
* `BlockOwnResults`: `Spec => []OwnResults`.
* `BlockChunkInOnePlace`: `Spec => []ChunkInOnePlace`.
* `BlockImplementsService`: `Spec => ImplementsService`, the safety part of
  `ImplementsFairService`.

A thread starts before its ports are set and before it is told to stop; what keeps it from
using them is that the queue is empty until the last block is made (`PortsInv`). A result is
its chunk's own because a block that is done has computed what is at its input now, and the
input is the next item of the chunk as long as the thread waits (`WorkInv`). A chunk is in one
place because the chunks that wait, those in the blocks, those done and those collected are
shared out without overlap, in queues and blocks without repetition (`PlaceInv`).

The service may close only when every chunk is answered. The collecting thread never looks at
which results it has: it counts them, round by round (`CollectInv`). When it is over it has as
many results as there are chunks, no two of one chunk, and so (`AllTaken`, by the cardinality
of a bijection) those of all chunks. The bounds of `TypeOK` follow from the other invariants,
but for two that the steps need: an item has room for its result, and there is a block left to
stop while the collecting thread stops them (`BoundsInv`).

### 4.6 Not proved

Every invariant and every action property of a passing run is proved. Liveness under fairness is
out of the prover's reach and stays with TLC: `InputAnswered`, `ReconfigurationEnds`,
`RetryDelivered`, `ConfigurationEnds`, `UserCloseEndsSession`, `SentIsDelivered`, `TestEnds`,
`LoopsEndTogether`, `ServerStops`, `BenchmarkEnds`, `ConfigureReturns` and the fair services.

## 5. Plan

Every part with behaviour of its own is modelled, and every safety property of a passing run is
proved, with the two refinements of the server and that of the benchmark. What is left to prove:

* what the findings hang on, as `EmptyPopNeedsFailedWrite`, `DanglingUserNeedsFailedRead` and
  `FpgaWholeWordsReachIt` show it of three of them: that a session whose outputs all fit the new
  configuration is drained by every step that answers, and that with small results several
  writers to a user do no harm;
* the safety core of more liveness properties, as `FpgaCallIsBounded` is of `ConfigureReturns`: a
  bound on the steps of the benchmark, and of a session whose user has stopped sending.

## 6. Not modelled

* The node agent (`node/main.cpp`) is a skeleton without a protocol.
* The DMA driver (`alt_dma.c`, `alt_dma.h`) is vendor code that the build does not compile and
  nothing calls.
* `hps.h` is a table of addresses, but for the two macros that map the registers;
  `alt_fpgamgr.h` gives each field of each register in several macros. The fields the
  driver uses are in `FpgaRegisters`, mapped to their descriptions; the rest is
  constants without behaviour. These four files are four fifths of the lines of the
  repository, and so most of its lines have no counterpart here.
* The interrupt status and GPIO *getters* of the manager change no state; those that the
  configuration reads are in `Pins` and `StateGet`.
* The file helpers in `utils.cpp` are pure input and output; the Python scripts drive the
  programs and process their output.
* Delays and statistics of users and nodes, the wording of their output, and the command line of
  `test_user`, which is such a delay.
