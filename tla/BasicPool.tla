------------------------------ MODULE BasicPool ------------------------------
(***************************************************************************)
(* BasicPool, the fixed-size memory pool of the math library: a free list  *)
(* that runs through m_marks, starting at m_free.  Two variables are not   *)
(* in the code: holders counts how often an element has been returned by   *)
(* Alloc and not yet been given back by Free, and overdrawn says that an   *)
(* Alloc has been called while every element was held.                     *)
(***************************************************************************)
EXTENDS Integers

CONSTANT Count    \* the number of elements, m_count

ASSUME PoolAssumption == Count \in Nat \ {0}

Elems == 0 .. Count - 1

VARIABLES free,     \* m_free
          marks,    \* m_marks
          holders,
          overdrawn

poolVars == <<free, marks, holders, overdrawn>>

PoolInit ==
    /\ free = 0
    /\ marks = [e \in Elems |-> IF e = Count - 1 THEN 0 ELSE e + 1]
    /\ holders = [e \in Elems |-> 0]
    /\ overdrawn = FALSE

Held == {e \in Elems : holders[e] > 0}

\* Mutant: the mark is cleared before it is read.
AllocCleared ==
    /\ free >= 0
    /\ free' = -1
    /\ marks' = [marks EXCEPT ![free] = -1]
    /\ holders' = [holders EXCEPT ![free] = @ + 1]
    /\ overdrawn' = (overdrawn \/ Held = Elems)

\* Mutant: the list does not advance.
AllocStays ==
    /\ free >= 0
    /\ holders' = [holders EXCEPT ![free] = @ + 1]
    /\ overdrawn' = (overdrawn \/ Held = Elems)
    /\ UNCHANGED <<free, marks>>

Alloc ==
    /\ free >= 0
    /\ free' = marks[free]
    /\ marks' = [marks EXCEPT ![free] = -1]
    /\ holders' = [holders EXCEPT ![free] = @ + 1]
    /\ overdrawn' = (overdrawn \/ Held = Elems)

\* Alloc returns NULL.
AllocNull ==
    /\ free < 0
    /\ overdrawn' = (overdrawn \/ Held = Elems)
    /\ UNCHANGED <<free, marks, holders>>

Free(e) ==
    /\ holders[e] > 0
    /\ marks' = [marks EXCEPT ![e] = free]
    /\ free' = e
    /\ holders' = [holders EXCEPT ![e] = @ - 1]
    /\ UNCHANGED overdrawn

PoolNext == Alloc \/ AllocNull \/ \E e \in Elems : Free(e)

PoolSpec == PoolInit /\ [][PoolNext]_poolVars

-----------------------------------------------------------------------------
PoolTypeOK ==
    /\ free \in Elems \cup {-1}
    /\ marks \in [Elems -> Elems \cup {-1}]
    /\ holders \in [Elems -> Nat]
    /\ overdrawn \in BOOLEAN

\* Until someone asks for one more than `count: max object count'
\* (EasyPool.h:13), Alloc never returns an element that somebody holds.
Exclusive == overdrawn \/ \A e \in Elems : holders[e] <= 1

\* As long as an element is free, the next Alloc returns a free one, not NULL,
\* in whatever order the others have been given back.
NextIsFree == overdrawn \/ Held = Elems \/ free \in Elems \ Held
=============================================================================
