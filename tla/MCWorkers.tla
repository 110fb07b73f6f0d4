----------------------------- MODULE MCWorkers -----------------------------
(***************************************************************************)
(* The workers of the pool, and the deque each of them keeps its tasks in. *)
(* ThreadPool takes a deque's operations as single steps, which is what    *)
(* WorkStealQueue shows them to be; a behaviour is about the one or the    *)
(* other, which part names, while the other rests in an initial state.     *)
(***************************************************************************)
EXTENDS MCThreadPool, WorkStealQueue

VARIABLE part

workersVars == <<part, vars, dequeVars>>

Pool == part = "pool"
Deque == part = "deque"

WorkersInit == part \in {"pool", "deque"} /\ Init /\ DequeInit

WorkersNext ==
    /\ \/ Pool /\ Next /\ UNCHANGED dequeVars
       \/ Deque /\ DequeNext /\ UNCHANGED vars
    /\ UNCHANGED part

\* The fairness of FairSpec and of DequeFairSpec
WorkersSpec ==
    /\ WorkersInit /\ [][WorkersNext]_workersVars
    /\ WF_vars(Pool /\ MainStep /\ (main.pc = "join" => joined))
    /\ \A w \in Workers : WF_vars(Pool /\ (Loop(w) \/ RunTask(w)))
    /\ WF_dequeVars(Deque /\ Flush)
    /\ WF_dequeVars(Deque /\ PopStep)
    /\ \A i \in Thieves : WF_dequeVars(Deque /\ StealStep(i))
=============================================================================
