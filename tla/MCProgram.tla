----------------------------- MODULE MCProgram -----------------------------
(* Model-checking values for Program. *)
EXTENDS Program

\* A call on four items and one on a single item.
FourAndOne == <<<<1, 4>>, <<5, 5>>>>

\* Every algorithm, with no exception, with one in a part that is split off, and
\* with waits that return early.
ThreeOfEach ==
    [kind : {"static", "auto", "invoke"}, thrower : {0, 3}, early : {FALSE}]
        \cup [kind : {"static", "auto", "invoke"}, thrower : {3}, early : {TRUE}]
=============================================================================
