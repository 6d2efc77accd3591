---------------------------- MODULE MCDeployment ----------------------------
(* Instances of Deployment for TLC.  A uint32_t is less than 128 here.       *)
EXTENDS DeploymentProperties

CONSTANTS n1, n2, u1, u2

Workload(blocks, in, out, rbf, count) ==
  [blocks |-> blocks, in |-> in, out |-> out, rbf |-> rbf, count |-> count]

SomeWorkloads ==
  { Workload(0, 32, 16, 4, 1),      \* the benchmark
    Workload(0, 16, 16, 4, 8),      \* the size of an input wraps to no blocks
    Workload(0, 17, 4, 4, 8),       \* ... to no whole number of blocks
    Workload(0, 31, 4, 4, 4),       \* ... to an empty payload
    Workload(0, 25, 25, 4, 5),      \* ... to less than an id
    Workload(0, 16, 40, 4, 4),      \* outputs larger than inputs
    Workload(2, 16, 16, 4, 1),      \* blocks, which the benchmark has not
    Workload(0, 16, 16, 112, 1),    \* the message is larger than its size field
    Workload(0, 16, 16, 128, 1) }   \* ... and its payload is

Benchmark == {Workload(0, 32, 16, 4, 1)}

\* One of any sizes, one with the benchmark's.
MCWorkloads == [u \in User |-> IF u = u1 THEN SomeWorkloads ELSE Benchmark]
=============================================================================
