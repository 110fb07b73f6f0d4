---------------------------- MODULE MCThreadPool ----------------------------
(* Model-checking values for ThreadPool: trees of tasks. *)
EXTENDS ThreadPool

\* Task 1 spawns 2 and 3, task 2 spawns 4.
KidsOfFour == [t \in 1 .. 4 |-> IF t = 1 THEN <<2, 3>> ELSE IF t = 2 THEN <<4>> ELSE <<>>]

\* Task 1 spawns 2, which spawns 3.
KidsOfThree == [t \in 1 .. 3 |-> IF t < 3 THEN <<t + 1>> ELSE <<>>]

\* Task 1 spawns 2, task 3 spawns 4.
KidsOfPairs == [t \in 1 .. 4 |-> IF t \in {1, 3} THEN <<t + 1>> ELSE <<>>]

OneRoot == <<1>>
TwoRoots == <<1, 3>>

\* The workers are interchangeable.
WorkerSymmetry == Permutations(Workers)
=============================================================================
