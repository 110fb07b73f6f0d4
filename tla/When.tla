-------------------------------- MODULE When --------------------------------
(***************************************************************************)
(* when_all and when_any: a shared state with a result and an event, and   *)
(* on each input task a continuation that holds a reference to the state.  *)
(* The registrar is the thread in when_all or when_any.  A continuation    *)
(* runs in the thread that finishes its input, or in the registrar if the  *)
(* input has finished already (inline_scheduler).                          *)
(*                                                                         *)
(* EventTask is the detailed model of an input's list of continuations and *)
(* of the event; here adding a continuation and setting the event are      *)
(* steps.                                                                  *)
(***************************************************************************)
EXTENDS Integers, FiniteSets

CONSTANTS Count  \* the number of inputs

ASSUME WhenAssumption == Count \in Nat \ {0}

Inputs == 1 .. Count

VARIABLES
    combine,   \* "all" or "any"
    finished,  \* the inputs that have finished
    reg,       \* the registrar: what it does next, and for which input
    cont,      \* cont[i]: what the continuation of input i does next
    runner,    \* runner[i]: who runs it
    temp,      \* temp[i]: the result that when_any's continuation i moved out
    result,    \* the inputs that are in the state's result
    refs,      \* the state's reference count
    event,     \* what the event was set to
    deletions  \* how often the state has been deleted

whenVars == <<combine, finished, reg, cont, runner, temp, result, refs, event, deletions>>

\* An input must be put into when_any's result before its continuation is added.
Begins == IF combine = "any" THEN "fill" ELSE "then"

WhenInit ==
    /\ combine \in {"all", "any"}
    /\ finished = {}
    /\ reg = [does |-> Begins, at |-> 1]
    /\ cont = [i \in Inputs |-> "none"]
    /\ runner = [i \in Inputs |-> "nobody"]
    /\ temp = [i \in Inputs |-> {}]
    /\ result = {}
    /\ refs = Count
    /\ event = [kind |-> "unset", index |-> 0, tasks |-> {}]
    /\ deletions = 0

-----------------------------------------------------------------------------
\* event.set and set_exception: the first one wins.
SetEvent(e) == event' = IF event.kind = "unset" THEN e ELSE event

\* ~when_all_state; ~event_task in when_any_state
Delete ==
    SetEvent([kind |-> IF combine = "all" THEN "value" ELSE "abandoned",
              index |-> 0, tasks |-> IF combine = "all" THEN result ELSE {}])

\* remove_ref: `fetch_sub(n) == n'
RemoveRef(n) ==
    /\ refs' = refs - n
    /\ IF refs = n THEN Delete /\ deletions' = deletions + 1
                   ELSE UNCHANGED <<event, deletions>>

Advance == reg' = IF reg.at = Count THEN [reg EXCEPT !.does = "done"]
                  ELSE [does |-> Begins, at |-> reg.at + 1]

\* The registrar is not in a continuation.
Registering(pc) ==
    /\ reg.does = pc
    /\ \A i \in Inputs : runner[i] = "registrar" => cont[i] = "over"

\* when_any: put a copy of the task into the result, a tuple.  In the overload for
\* ranges it is a vector, and once it has been moved out this writes behind it.
Fill ==
    /\ Registering("fill")
    /\ result' = result \cup {reg.at}
    /\ reg' = [reg EXCEPT !.does = "then"]
    /\ UNCHANGED <<combine, finished, cont, runner, temp, refs, event, deletions>>

\* then: the continuation is added, or run if the input has finished.
Then ==
    /\ Registering("then")
    /\ IF reg.at \in finished
       THEN /\ cont' = [cont EXCEPT ![reg.at] = "run"]
            /\ runner' = [runner EXCEPT ![reg.at] = "registrar"]
       ELSE /\ cont' = [cont EXCEPT ![reg.at] = "added"]
            /\ UNCHANGED runner
    /\ Advance
    /\ UNCHANGED <<combine, finished, temp, result, refs, event, deletions>>

\* then throws: the function, with its reference, is destroyed.
ThenThrows ==
    /\ Registering("then")
    /\ cont' = [cont EXCEPT ![reg.at] = "over"]
    /\ reg' = [reg EXCEPT !.does = "catch"]
    /\ RemoveRef(1)
    /\ UNCHANGED <<combine, finished, runner, temp, result>>

\* Mutant: all references not given to a continuation are removed once more.
CatchOneMore ==
    /\ Registering("catch")
    /\ RemoveRef(Count - reg.at + 1)
    /\ reg' = [reg EXCEPT !.does = "thrown"]
    /\ UNCHANGED <<combine, finished, cont, runner, temp, result>>

\* The handler removes the references of the inputs it has not come to: none after
\* the last input.  The state may be gone by then, and what is in its place, a count
\* of 0 or anything else, decides whether it is deleted again.
Catch ==
    /\ Registering("catch")
    /\ \/ RemoveRef(Count - reg.at)
       \/ refs = 0 /\ UNCHANGED <<refs, event, deletions>>
    /\ reg' = [reg EXCEPT !.does = "thrown"]
    /\ UNCHANGED <<combine, finished, cont, runner, temp, result>>

-----------------------------------------------------------------------------
\* Input i finishes, and runs its continuation if one has been added.
FinishInput(i) ==
    /\ i \notin finished
    /\ finished' = finished \cup {i}
    /\ IF cont[i] = "added"
       THEN /\ cont' = [cont EXCEPT ![i] = "run"]
            /\ runner' = [runner EXCEPT ![i] = "finisher"]
       ELSE UNCHANGED <<cont, runner>>
    /\ UNCHANGED <<combine, reg, temp, result, refs, event, deletions>>

\* when_all_func: keep the finished task.
Keep(i) ==
    /\ cont[i] = "run" /\ combine = "all"
    /\ result' = result \cup {i}
    /\ cont' = [cont EXCEPT ![i] = "drop"]
    /\ UNCHANGED <<combine, finished, reg, runner, temp, refs, event, deletions>>

\* when_any_state::set: move the result out, then set the event.
MoveOut(i) ==
    /\ cont[i] = "run" /\ combine = "any"
    /\ temp' = [temp EXCEPT ![i] = result]
    /\ result' = {}
    /\ cont' = [cont EXCEPT ![i] = "set"]
    /\ UNCHANGED <<combine, finished, reg, runner, refs, event, deletions>>

\* Mutant: the index is taken from the registrar's loop.
SetByReference(i) ==
    /\ cont[i] = "set"
    /\ SetEvent([kind |-> "value", index |-> reg.at, tasks |-> temp[i]])
    /\ temp' = [temp EXCEPT ![i] = {}]
    /\ cont' = [cont EXCEPT ![i] = "drop"]
    /\ UNCHANGED <<combine, finished, reg, runner, result, refs, deletions>>

Set(i) ==
    /\ cont[i] = "set"
    /\ SetEvent([kind |-> "value", index |-> i, tasks |-> temp[i]])
    /\ temp' = [temp EXCEPT ![i] = {}]
    /\ cont' = [cont EXCEPT ![i] = "drop"]
    /\ UNCHANGED <<combine, finished, reg, runner, result, refs, deletions>>

\* The continuation's function is destroyed.
DropRef(i) ==
    /\ cont[i] = "drop"
    /\ RemoveRef(1)
    /\ cont' = [cont EXCEPT ![i] = "over"]
    /\ UNCHANGED <<combine, finished, reg, runner, temp, result>>

Continue(i) == Keep(i) \/ MoveOut(i) \/ Set(i) \/ DropRef(i)
Register == Fill \/ Then \/ ThenThrows \/ Catch

WhenNext == Register \/ \E i \in Inputs : FinishInput(i) \/ Continue(i)

WhenSpec == WhenInit /\ [][WhenNext]_whenVars

-----------------------------------------------------------------------------
WhenTypeOK ==
    /\ combine \in {"all", "any"}
    /\ finished \subseteq Inputs
    /\ reg \in [does : {"fill", "then", "catch", "thrown", "done"}, at : Inputs]
    /\ cont \in [Inputs -> {"none", "added", "run", "set", "drop", "over"}]
    /\ runner \in [Inputs -> {"nobody", "registrar", "finisher"}]
    /\ temp \in [Inputs -> SUBSET Inputs]
    /\ result \subseteq Inputs
    /\ refs \in 0 .. Count
    /\ event \in [kind : {"unset", "value", "abandoned"}, index : 0 .. Count,
                  tasks : SUBSET Inputs]
    /\ deletions \in 0 .. 2

\* The references to the shared state: one for each continuation that exists and
\* each input that the registrar has not come to.
Owners ==
    {i \in Inputs : \/ cont[i] \in {"added", "run", "set", "drop"}
                    \/ cont[i] = "none" /\ reg.does # "thrown"}

\* The state is deleted with the last reference and not before, on every path,
\* through throwing then()s as well: no continuation finds it gone, and none and no
\* input that was not come to keeps it (when_all_any.h:48, 192).
DeletedWithLastRef ==
    /\ refs = Cardinality(Owners)
    /\ deletions > 0 <=> refs = 0

\* `Make sure we don't leak memory if then() throws' (when_all_any.h:192): the state
\* is not freed more than once for it.
DeletedOnce == deletions <= 1

\* A value of when_all means that every input has finished and is in it.  A value
\* of when_any names an input that has finished, whatever the registrar is at.
CombinedResult ==
    event.kind = "value" /\ reg.does \notin {"catch", "thrown"} =>
       CASE combine = "all" -> finished = Inputs /\ event.tasks = Inputs
         [] combine = "any" -> event.index \in finished

\* `List of tasks that were passed in' (when_all_any.h:33): all of them, whichever
\* of them have finished before.
TasksPassedIn ==
    combine = "any" /\ event.kind = "value" => event.tasks = Inputs
=============================================================================
