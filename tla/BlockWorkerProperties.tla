----------------------- MODULE BlockWorkerProperties -----------------------
(* What the benchmark owes its measurements.                                 *)
EXTENDS BlockWorker, FiniteSets

Result(id, data) == [id |-> id, data |-> data]
OwnData(id) == [a \in 1 .. DSize |-> Computed(Item(id, a))]

\* Type invariant
TypeOK ==
  /\ \A b \in Block :
       /\ state[b] \in {"none", "ready", "busy", "done", "stopped"}
       /\ wpc[b] \in {"none", "check", "mark", "pop", "item", "wait", "done"}
       /\ coming[b] \in Chunk \cup {NoChunk} /\ Len(going[b]) <= DSize
       /\ fpga[b] \in {"idle", "running", "done"}
  /\ made \in 0 .. NBlocks /\ pushed \in 0 .. Rounds * InSize
  /\ round \in 0 .. Rounds /\ count2 \in 0 .. InSize

Places(c) ==
  [waits  |-> {k \in DOMAIN sendQ : sendQ[k] = c},
   worked |-> {b \in Block : coming[b] = c},
   ready  |-> {k \in DOMAIN receiveQ : receiveQ[k].id = c},
   taken  |-> {k \in DOMAIN collected : collected[k].id = c}]

\* A chunk that was sent is in exactly one place, whichever threads met over the
\* queues (safeQ.hpp:51-64, main.cpp:261-282): none is lost, none worked on twice.
ChunkInOnePlace ==
  \A c \in Chunk :
    LET p == Places(c) IN
    Cardinality(p.waits) + Cardinality(p.worked) + Cardinality(p.ready)
      + Cardinality(p.taken) = IF c <= pushed THEN 1 ELSE 0

\* What is collected for a chunk was computed from its own items, in their order,
\* although the items of all chunks pass through the same ports (Block.cpp:132-177).
OwnResults ==
  \A k \in DOMAIN collected : collected[k].data = OwnData(collected[k].id)

\* No thread touches the ports of its block before they are set: it was started
\* before that, with nothing but an empty queue to hold it back (main.cpp:217-234).
PortsSetBeforeUse ==
  \A b \in Block : wpc[b] \in {"item", "wait"} => port[b].set

\* Every round ends, and with it the program (main.cpp:285, :383).
BenchmarkEnds == <>(mpc = "exit")

------------------------------------------------------------------------------
(* The benchmark is a job service: chunks are inputs, results are answers.   *)

sessionBar ==
  CASE mpc \in {"construct", "ports", "stop"} -> "opening"
    [] mpc = "send" -> "open"
    [] mpc = "join" -> "draining"
    [] mpc = "exit" -> "closed"

statusBar ==
  [c \in Chunk |-> IF c > pushed THEN "new"
                   ELSE IF Places(c).taken = {} THEN "accepted" ELSE "answered"]

Service == INSTANCE JobService WITH Input <- Chunk, session <- sessionBar, status <- statusBar

\* Every chunk is answered once, after it was sent, and the program ends with
\* all of them answered.
ImplementsService == Service!Spec

\* And with threads that are scheduled, it does end.
ImplementsFairService == Service!FairSpec
=============================================================================
