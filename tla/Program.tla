------------------------------ MODULE Program ------------------------------
(***************************************************************************)
(* A program that spawns parallel calls as tasks and combines them: input  *)
(* i of when_all or when_any (When) is the task of call i (Parallel).  The *)
(* main thread registers while the workers already run the calls; a worker *)
(* that finishes a call runs the continuation before it lets the task go,  *)
(* with the tasks it is nested in waiting below.                           *)
(***************************************************************************)
EXTENDS Parallel, When

ASSUME ProgramAssumption == Count = Cardinality(Calls)

vars == <<parVars, whenVars>>

Init == ParInit /\ WhenInit

\* The last worker that was in the continuation of call k has left it.
Continued(k) == runner[k] = "finisher" => cont[k] = "over"

WorkerStep(w) ==
    /\ \E b \in Items :
          \/ Begin(w, b) \/ Fork(w, b) \/ Work(w, b) \/ Join(w, b) \/ Destroy(w, b)
          \/ b \notin Roots /\ (Finish(w, b) \/ Release(w, b))
    /\ UNCHANGED whenVars

FinishCall(w, k) == Finish(w, Root(k)) /\ FinishInput(k)

ReleaseCall(w, k) ==
    /\ Release(w, Root(k))
    /\ Continued(k)
    /\ UNCHANGED whenVars

\* Step of call k's continuation in the thread that runs it.
ContinueBy(k, who) ==
    /\ runner[k] = who
    /\ Continue(k)
    /\ UNCHANGED parVars

Worker(w) ==
    \/ WorkerStep(w)
    \/ \E k \in Calls :
          \/ FinishCall(w, k)
          \/ ReleaseCall(w, k)
          \/ In(w, Root(k), "finished") /\ ContinueBy(k, "finisher")

Main ==
    \/ Register /\ UNCHANGED parVars
    \/ \E k \in Calls : ContinueBy(k, "registrar")

\* All is done: the program goes on to something else.
Over ==
    /\ held = {}
    /\ reg.does \in {"done", "thrown"}
    /\ refs = 0

Next == (\E w \in Workers : Worker(w)) \/ Main

Spec == Init /\ [][Next]_vars
FairSpec == Spec /\ WF_vars(Main) /\ \A w \in Workers : WF_vars(Worker(w))

-----------------------------------------------------------------------------
TypeOK ==
    /\ WhenTypeOK
    /\ stack \in [Workers -> {s \in SeqOf(Items, Cardinality(Items)) : IsInjective(s)}]
    /\ st \in [Items -> {"none", "queued", "running", "completed", "canceled", "gone"}]
    /\ held \subseteq Items
    /\ stolen \subseteq Items

\* Every call returns to its caller and the combined task gets an outcome,
\* whatever threw: no worker waits on another in a circle although waits nest
\* (parallel_for.h:45), and the last reference to the shared state goes.
Returns == <>(Over /\ event.kind # "unset")
=============================================================================
