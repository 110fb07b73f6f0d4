----------------------------- MODULE Containers -----------------------------
(***************************************************************************)
(* The program's two containers of fixed arrays, the memory pool and the   *)
(* FIFO queue, side by side: they share nothing, and a step is an          *)
(* operation of one of them.                                               *)
(***************************************************************************)
EXTENDS BasicPool

CONSTANTS Bits, InitialSize, MaxPushes, Garbage

\* An array of pointers is never as long as half the range of a std::size_t.
ASSUME QueueAssumption ==
    /\ Bits \in Nat /\ InitialSize \in Nat \ {0} /\ MaxPushes \in Nat
    /\ 2 * MaxPushes + 1 < 2^Bits

VARIABLES items, size, head, tail, pushed, popped, last, overrun

queueVars == <<items, size, head, tail, pushed, popped, last, overrun>>

Queue == INSTANCE FifoQueue WITH Width <- Bits, Junk <- Garbage

BothInit == PoolInit /\ Queue!Init

BothNext ==
    \/ PoolNext /\ UNCHANGED queueVars
    \/ Queue!Push /\ UNCHANGED poolVars
    \/ Queue!Pop /\ UNCHANGED poolVars

BothSpec == BothInit /\ [][BothNext]_<<poolVars, queueVars>>

-----------------------------------------------------------------------------
\* First in, first out (fifo_queue.h:40, 63): FifoQueue's property.
InOrder == Queue!InOrder
=============================================================================
