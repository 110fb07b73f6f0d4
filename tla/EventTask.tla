----------------------------- MODULE EventTask -----------------------------
(***************************************************************************)
(* One event_task: threads that try to finish it with set or set_exception,*)
(* the owner that destroys it after them, threads that each hang one       *)
(* continuation on it with shared_task::then, and the continuations as the *)
(* scheduler runs them.                                                    *)
(*                                                                         *)
(* A step is one access to shared memory: the state, the word of           *)
(* continuation_vector, the reference count, or what the mutex of a        *)
(* vector_data guards.  The reference count is that of the event's task; a *)
(* continuation holds a reference to the task it takes until its function  *)
(* is destroyed.                                                           *)
(***************************************************************************)
EXTENDS Integers, FiniteSets, SequencesExt

CONSTANTS Setters,  \* the threads that call set or set_exception
          Conts,    \* the continuations, and the threads that add them
          Always,   \* the continuations that take the task (always_cont)
          Owner,    \* the thread that destroys the event_task
          None      \* the null pointer, nobody

ASSUME EventTaskAssumption ==
    /\ IsFiniteSet(Conts) /\ Always \subseteq Conts
    /\ Setters \cap Conts = {}
    /\ Owner \notin Setters \cup Conts
    /\ None \notin Setters \cup Conts \cup {Owner}

Finishers == Setters \cup {Owner}

VARIABLES
    state,    \* task_base::state
    content,  \* what is in the union of result and except
    data,     \* atomic_data: the inline pointer and the two flags
    vec,      \* vector_data::vector
    mutex,    \* who holds vector_data::lock
    refs,     \* ref_count of the task
    fin,      \* fin[s]: where finisher s is, and what it finishes with
    add,      \* add[c]: where the thread that adds c is, the state and the
              \* word that it read
    cont      \* cont[c]: "new", "made", "scheduled", "canceled" or "done"

vectorVars == <<data, vec, mutex>>
eventVars == <<state, content, vectorVars, refs, fin, add, cont>>

IsFinished(s) == s \in {"completed", "canceled"}

EmptyWord == [elem |-> None, vector |-> FALSE, locked |-> FALSE]

\* A thread before and after it finishes the event, or adds its continuation
FinAt(pc) == [pc |-> pc, op |-> "exception"]
AddAt(pc) == [pc |-> pc, seen |-> "pending", exp |-> EmptyWord]

EventInit ==
    /\ state = "pending"
    /\ content = "nothing"
    /\ data = EmptyWord
    /\ vec = <<>>
    /\ mutex = None
    /\ refs = 1 + Cardinality(Conts)
    /\ fin = [s \in Finishers |-> FinAt("start")]
    /\ add = [c \in Conts |-> AddAt("make")]
    /\ cont = [c \in Conts |-> "new"]

\* run_continuation.  A canceled continuation destroys its function, and with
\* it its reference.
Handle(c, cancel) ==
    IF cancel /\ c \notin Always
    THEN /\ cont' = [cont EXCEPT ![c] = "canceled"]
         /\ refs' = refs - 1
    ELSE /\ cont' = [cont EXCEPT ![c] = "scheduled"]
         /\ UNCHANGED refs

-----------------------------------------------------------------------------
(* Finishing.                                                               *)

FinGoto(s, pc) == fin' = [fin EXCEPT ![s].pc = pc]
FinReturn(s) ==
    fin' = [fin EXCEPT ![s] = FinAt(IF s = Owner THEN "release" ELSE "done")]

\* A thread that could finish the event does not.
Leave(s) ==
    /\ s \in Setters
    /\ fin[s].pc = "start"
    /\ FinGoto(s, "done")
    /\ UNCHANGED <<state, content, vectorVars, refs, add, cont>>

\* ~basic_event, when no other thread uses the event_task any more.
Destroy ==
    /\ fin[Owner].pc = "start"
    /\ \A s \in Setters : fin[s].pc = "done"
    /\ FinGoto(Owner, IF IsFinished(state) \/ refs = 1 THEN "release" ELSE "abandon")
    /\ UNCHANGED <<state, content, vectorVars, refs, add, cont>>

\* Mutant: set checks that the event is not finished instead of locking it.
ClaimUnlocked(s) ==
    /\ IF s = Owner THEN fin[s].pc = "abandon" ELSE fin[s].pc = "start"
    /\ \E op \in IF s = Owner THEN {"exception"} ELSE {"value", "exception"} :
          IF IsFinished(state)
          THEN FinReturn(s)
          ELSE fin' = [fin EXCEPT ![s] = [pc |-> "store", op |-> op]]
    /\ UNCHANGED <<state, content, vectorVars, refs, add, cont>>

\* The compare-exchange of set and set_exception.
Claim(s) ==
    /\ IF s = Owner THEN fin[s].pc = "abandon" ELSE fin[s].pc = "start"
    /\ \E op \in IF s = Owner THEN {"exception"} ELSE {"value", "exception"} :
          IF state = "pending"
          THEN /\ state' = "locked"
               /\ fin' = [fin EXCEPT ![s] = [pc |-> "store", op |-> op]]
          ELSE /\ FinReturn(s)
               /\ UNCHANGED state
    /\ UNCHANGED <<content, vectorVars, refs, add, cont>>

\* The value, unless its copy throws, or the exception
StoreResult(s) ==
    /\ fin[s].pc = "store"
    /\ \E op \in {fin[s].op, "exception"} :
          /\ content' = op
          /\ fin' = [fin EXCEPT ![s] = [pc |-> "publish", op |-> op]]
    /\ UNCHANGED <<state, vectorVars, refs, add, cont>>

Publish(s) ==
    /\ fin[s].pc = "publish"
    /\ state' = IF fin[s].op = "value" THEN "completed" ELSE "canceled"
    /\ FinGoto(s, "lock")
    /\ UNCHANGED <<content, vectorVars, refs, add, cont>>

\* flush_and_lock
LockVector(s) ==
    /\ fin[s].pc = "lock"
    /\ data' = [data EXCEPT !.locked = TRUE]
    /\ FinGoto(s, IF data.vector THEN "mutex" ELSE "inline")
    /\ UNCHANGED <<state, content, vec, mutex, refs, add, cont>>

FlushInline(s) ==
    /\ fin[s].pc = "inline"
    /\ IF data.elem # None THEN Handle(data.elem, fin[s].op = "exception")
                           ELSE UNCHANGED <<cont, refs>>
    /\ FinReturn(s)
    /\ UNCHANGED <<state, content, vectorVars, add>>

FlushMutex(s) ==
    /\ fin[s].pc = "mutex"
    /\ mutex = None
    /\ mutex' = s
    /\ FinGoto(s, "flush")
    /\ UNCHANGED <<state, content, data, vec, refs, add, cont>>

FlushVector(s) ==
    /\ fin[s].pc = "flush"
    /\ IF vec # <<>>
       THEN /\ Handle(Head(vec), fin[s].op = "exception")
            /\ vec' = Tail(vec)
            /\ UNCHANGED <<mutex, fin>>
       ELSE /\ mutex' = None
            /\ FinReturn(s)
            /\ UNCHANGED <<vec, refs, cont>>
    /\ UNCHANGED <<state, content, data, add>>

\* The event_task lets go of the task.
Release ==
    /\ fin[Owner].pc = "release"
    /\ refs' = refs - 1
    /\ FinGoto(Owner, "done")
    /\ UNCHANGED <<state, content, vectorVars, add, cont>>

FinishStep(s) ==
    \/ Leave(s) \/ Claim(s) \/ StoreResult(s) \/ Publish(s)
    \/ LockVector(s) \/ FlushInline(s) \/ FlushMutex(s) \/ FlushVector(s)

-----------------------------------------------------------------------------
(* Adding a continuation.                                                   *)

AddGoto(c, pc) == add' = [add EXCEPT ![c].pc = pc]
AddReturn(c) == add' = [add EXCEPT ![c] = AddAt("release")]

\* Mutant: the continuation refers to its parent without counting.
MakeUncounted(c) ==
    /\ add[c].pc = "make"
    /\ cont' = [cont EXCEPT ![c] = "made"]
    /\ AddGoto(c, "state")
    /\ UNCHANGED <<state, content, vectorVars, refs, fin>>

\* then_internal: the continuation gets a copy of the shared_task.
Make(c) ==
    /\ add[c].pc = "make"
    /\ refs' = refs + 1
    /\ cont' = [cont EXCEPT ![c] = "made"]
    /\ AddGoto(c, "state")
    /\ UNCHANGED <<state, content, vectorVars, fin>>

\* add_continuation
ReadState(c) ==
    /\ add[c].pc = "state"
    /\ add' = [add EXCEPT ![c].seen = state,
                          ![c].pc = IF IsFinished(state) THEN "run" ELSE "word"]
    /\ UNCHANGED <<state, content, vectorVars, refs, fin, cont>>

\* try_add with the word that was read: locked, a vector, or inline
Branch(c) ==
    add' = [add EXCEPT ![c].exp = data,
                       ![c].pc = IF data.locked THEN "run"
                                 ELSE IF data.vector THEN "mutex" ELSE "swap"]

ReadWord(c) ==
    /\ add[c].pc = "word"
    /\ Branch(c)
    /\ UNCHANGED <<state, content, vectorVars, refs, fin, cont>>

\* The compare-exchange from no continuation to one, or from one to a vector
Swap(c) ==
    /\ add[c].pc = "swap"
    /\ IF data # add[c].exp
       THEN Branch(c) /\ UNCHANGED <<data, vec>>
       ELSE /\ AddReturn(c)
            /\ IF data.elem = None
               THEN /\ data' = [data EXCEPT !.elem = c]
                    /\ UNCHANGED vec
               ELSE /\ data' = [elem |-> None, vector |-> TRUE, locked |-> FALSE]
                    /\ vec' = <<data.elem, c>>
    /\ UNCHANGED <<state, content, mutex, refs, fin, cont>>

AddMutex(c) ==
    /\ add[c].pc = "mutex"
    /\ mutex = None
    /\ mutex' = c
    /\ AddGoto(c, "recheck")
    /\ UNCHANGED <<state, content, data, vec, refs, fin, cont>>

\* Mutant: the flag is not looked at again under the mutex.
RecheckSkipped(c) ==
    /\ add[c].pc = "recheck"
    /\ AddGoto(c, "push")
    /\ UNCHANGED <<state, content, vectorVars, refs, fin, cont>>

Recheck(c) ==
    /\ add[c].pc = "recheck"
    /\ IF data.locked
       THEN mutex' = None /\ AddGoto(c, "run")
       ELSE AddGoto(c, "push") /\ UNCHANGED mutex
    /\ UNCHANGED <<state, content, data, vec, refs, fin, cont>>

PushBack(c) ==
    /\ add[c].pc = "push"
    /\ vec' = Append(vec, c)
    /\ mutex' = None
    /\ AddReturn(c)
    /\ UNCHANGED <<state, content, data, refs, fin, cont>>

\* The task has finished: run the continuation here, by the state read first.
RunDirectly(c) ==
    /\ add[c].pc = "run"
    /\ Handle(c, add[c].seen = "canceled")
    /\ AddReturn(c)
    /\ UNCHANGED <<state, content, vectorVars, fin>>

\* The thread lets go of its shared_task.
Unshare(c) ==
    /\ add[c].pc = "release"
    /\ refs' = refs - 1
    /\ AddGoto(c, "done")
    /\ UNCHANGED <<state, content, vectorVars, fin, cont>>

AddStep(c) ==
    \/ Make(c) \/ ReadState(c) \/ ReadWord(c) \/ Swap(c) \/ AddMutex(c)
    \/ Recheck(c) \/ PushBack(c) \/ RunDirectly(c) \/ Unshare(c)

\* A thread of the scheduler runs the continuation, which reads the task and
\* then destroys its function.
RunCont(c) ==
    /\ cont[c] = "scheduled"
    /\ cont' = [cont EXCEPT ![c] = "done"]
    /\ refs' = refs - 1
    /\ UNCHANGED <<state, content, vectorVars, fin, add>>

-----------------------------------------------------------------------------
Returned ==
    /\ \A s \in Finishers : fin[s].pc = "done"
    /\ \A c \in Conts : add[c].pc = "done"

Ended == Returned /\ \A c \in Conts : cont[c] \in {"canceled", "done"}

\* No thread has anything left to do.
Terminated ==
    /\ Returned
    /\ \A c \in Conts : cont[c] # "scheduled"
    /\ UNCHANGED eventVars

EventNext ==
    \/ Destroy \/ Release
    \/ \E s \in Finishers : FinishStep(s)
    \/ \E c \in Conts : AddStep(c) \/ RunCont(c)
    \/ Terminated

EventSpec == EventInit /\ [][EventNext]_eventVars

\* Every thread runs on, and the owner destroys the event_task in the end.
EventFairSpec ==
    /\ EventSpec
    /\ WF_eventVars(Destroy \/ Release)
    /\ \A s \in Finishers : WF_eventVars(FinishStep(s))
    /\ \A c \in Conts : WF_eventVars(AddStep(c)) /\ WF_eventVars(RunCont(c))

-----------------------------------------------------------------------------
EventTypeOK ==
    /\ state \in {"pending", "locked", "completed", "canceled"}
    /\ content \in {"nothing", "value", "exception"}
    /\ data \in [elem : Conts \cup {None}, vector : BOOLEAN, locked : BOOLEAN]
    /\ vec \in Seq(Conts)
    /\ mutex \in Finishers \cup Conts \cup {None}
    /\ refs \in Nat
    /\ \A s \in Finishers : fin[s].op \in {"value", "exception"}
    /\ cont \in [Conts -> {"new", "made", "scheduled", "canceled", "done"}]

Promise == INSTANCE TaskPromise WITH
    outcome <- IF state = "completed" THEN "value"
               ELSE IF state = "canceled" THEN "exception" ELSE "none",
    adding <- [c \in Conts |-> IF add[c].pc \in {"make", "state"} THEN "not"
                               ELSE IF /\ add[c].pc \notin {"release", "done"}
                                       /\ ~ IsFinished(add[c].seen) THEN "early"
                               ELSE "over"],
    handled <- [c \in Conts |-> IF cont[c] \in {"scheduled", "done"} THEN "run"
                                ELSE IF cont[c] = "canceled" THEN "canceled"
                                ELSE "no"]

\* `Cancel the event with an exception and cancel continuations' (task.h:216):
\* a continuation that takes the value is run only if there is one.
KeepsPromise == Promise!Spec

\* Through every race of then with set, a continuation is neither lost to the
\* switch from the inline pointer to the vector or to the lock, nor handled twice
\* or before there is an outcome; and what is done with it fits the outcome,
\* unless its then() has read the state before the outcome and comes to the list
\* after it.
KeepsRacyPromise == Promise!RacySpec

\* The last reference goes when nobody uses the task any more: no set is in
\* it, no then, and no continuation is going to read it.
FreedUnused == refs = 0 => Ended

\* Whoever begins to finish the event, if only by letting go of it unset: every
\* continuation is handled, every thread returns, and the task is freed, although
\* it and a continuation in its vector refer to each other.
IsFreed == (\E s \in Finishers : fin[s].pc # "start") ~> (refs = 0)
=============================================================================
