--------------------------- MODULE AsyncPrimitives ---------------------------
(***************************************************************************)
(* The data kept by the awaitable primitives of src/server: Counter.hpp,   *)
(* Queue.hpp and Stack.hpp.  Every primitive is a value and an asio timer  *)
(* that never expires; a coroutine that waits on the primitive waits on    *)
(* the timer, and a change of the value cancels the timer so that waiters  *)
(* look again.  This module has the operations on the values; who waits    *)
(* and who is woken is state of the module that uses them (UserSession).   *)
(*                                                                         *)
(* In every module a definition named Operation_Slip is Operation with a   *)
(* mistake in it.  No specification uses it: it is put in the place of     *)
(* Operation to see that the properties notice.                            *)
(***************************************************************************)
EXTENDS Integers, Sequences

CONSTANTS
    UIntMax,    \* the largest value of the `uint` that a Counter holds
    Lifo        \* TRUE: Stack.hpp (User_Stack.hpp); FALSE: Queue.hpp (User_Queue.hpp)

ASSUME UIntMaxAssumption == UIntMax \in Nat \ {0}
ASSUME LifoAssumption == Lifo \in BOOLEAN

UInt == 0 .. UIntMax

-----------------------------------------------------------------------------
(* Counter::incr, called k times: unsigned arithmetic wraps around. *)
IncrBy(val, k) == (val + k) % (UIntMax + 1)

Incr(val) == IncrBy(val, 1)

(* Counter::decr: a counter at zero stays there. *)
Decr(val) == IF val = 0 THEN 0 ELSE val - 1

-----------------------------------------------------------------------------
(* Queue::push and Stack::push.  pop takes the head: the oldest item of    *)
(* the queue, the newest item of the stack.                                *)
Push(items, item) == IF Lifo THEN <<item>> \o items ELSE Append(items, item)

(* Slip: the front is returned and never removed. *)
Pop_KeepsItem(items) == items

(* What Queue::pop and Stack::pop leave of a non-empty container. *)
Pop(items) == Tail(items)

(* What is left after popping every item into a vector and pushing the     *)
(* items back in the order of the vector: a stack comes back reversed.     *)
Repushed(items) ==
    IF Lifo THEN [k \in 1 .. Len(items) |-> items[Len(items) + 1 - k]]
            ELSE items
=============================================================================
