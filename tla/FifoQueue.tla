----------------------------- MODULE FifoQueue -----------------------------
(***************************************************************************)
(* fifo_queue, the circular buffer behind the thread pool's public queue   *)
(* and behind fifo_scheduler, used under a lock: its operations are atomic *)
(* for everybody.  Tasks are numbered in the order in which they are       *)
(* pushed.                                                                 *)
(***************************************************************************)
EXTENDS Integers

CONSTANTS Width,        \* bits of a std::size_t
          InitialSize,  \* slots of the first array (32 in the code), 1 .. 2^(Width-1)
          MaxPushes,    \* bound on the tasks pushed in a behaviour
          Junk          \* content of an array slot nothing was written to, no number

VARIABLES items, size, head, tail,  \* the members, and items.size()
          pushed, popped,           \* how many tasks went in and came out
          last,                     \* what the last pop returned, 0 for none
          overrun                   \* a copy ran past the end of new_items

vars == <<items, size, head, tail, pushed, popped, last, overrun>>

Next1(i, n) == (i + 1) % n
Empty == head = tail
Full == head = Next1(tail, size)

Init ==
    /\ size = InitialSize
    /\ items = [i \in 0 .. InitialSize - 1 |-> Junk]
    /\ head = 0
    /\ tail = 0
    /\ pushed = 0
    /\ popped = 0
    /\ last = 0
    /\ overrun = FALSE

\* Put the next task at the tail of the array `a' of n slots.
Put(a, n) ==
    /\ items' = [a EXCEPT ![tail] = pushed + 1]
    /\ size' = n
    /\ tail' = Next1(tail, n)
    /\ pushed' = pushed + 1
    /\ last' = 0
    /\ UNCHANGED <<head, popped, overrun>>

-----------------------------------------------------------------------------
(* Plausible mistakes, which must break the properties.                    *)

\* push never grows the array.
PushUnchecked ==
    /\ ~ overrun
    /\ pushed < MaxPushes
    /\ Put(items, size)

-----------------------------------------------------------------------------
\* push: a full array is replaced by one twice as long.  The number of items
\* to copy is `tail - head' as a std::size_t.
Push ==
    LET count == (tail - head) % 2^Width
        copy == [i \in 0 .. 2 * size - 1 |->
                   IF i < count THEN items[(i + head) % size] ELSE Junk]
    IN
    /\ ~ overrun
    /\ pushed < MaxPushes
    /\ \/ ~ Full /\ Put(items, size)
       \/ Full /\ count <= 2 * size /\ Put(copy, 2 * size)
       \/ /\ Full /\ count > 2 * size
          /\ overrun' = TRUE
          /\ UNCHANGED <<items, size, head, tail, pushed, popped, last>>

\* pop
Pop ==
    /\ ~ overrun
    /\ IF Empty
       THEN /\ last' = 0
            /\ UNCHANGED <<head, popped>>
       ELSE /\ last' = items[head]
            /\ head' = Next1(head, size)
            /\ popped' = popped + 1
    /\ UNCHANGED <<items, size, tail, pushed, overrun>>

Next == Push \/ Pop

Spec == Init /\ [][Next]_vars

-----------------------------------------------------------------------------
TypeOK ==
    /\ size \in {InitialSize * 2^k : k \in 0 .. MaxPushes}
    /\ items \in [0 .. size - 1 -> (1 .. MaxPushes) \cup {Junk}]
    /\ head \in 0 .. size - 1 /\ tail \in 0 .. size - 1
    /\ popped \in 0 .. pushed /\ pushed \in 0 .. MaxPushes
    /\ last \in 0 .. MaxPushes
    /\ overrun \in BOOLEAN

\* Tasks come out in the order in which they went in, each once: from head on
\* the array holds the tasks not yet popped, and a pop returns the oldest, or
\* nothing only if there is none.  It holds up to the copy that overruns.
InOrder ==
    ~ overrun =>
        /\ (tail - head) % size = pushed - popped
        /\ \A k \in 1 .. pushed - popped :
              items[(head + k - 1) % size] = popped + k
        /\ last # 0 => last = popped

\* `Resize queue if it is full' (fifo_queue.h:47): the copy into the array of
\* twice the size stays inside it.
ResizeStaysInside == ~ overrun
=============================================================================
