------------------------------ MODULE Parallel ------------------------------
(***************************************************************************)
(* The fork and join of parallel_for, parallel_reduce and parallel_invoke, *)
(* on worker threads that run other tasks while they wait.  A call goes    *)
(* over a range of items.  It is a task, and so is every part of the range *)
(* that is split off: a local_task in the stack frame of its parent.       *)
(* Tasks are named by the first item of their range when they are spawned. *)
(*                                                                         *)
(* The scheduler is any that runs a task once, in some worker: ThreadPool  *)
(* is the detailed model.  What an item does is left out, but that it may  *)
(* throw; the result of a reduction is the sequence of what is in it.      *)
(***************************************************************************)
EXTENDS Integers, FiniteSets, SequencesExt

CONSTANTS Workers,
          Ranges,    \* Ranges[k]: first and last item of call k
          Grain,     \* grain size of the static partitioner
          Hardware,  \* hardware_concurrency()
          Scenarios, \* how the calls may be made: values of `scenario'
          None       \* no thread

ASSUME ParallelAssumption ==
    /\ Ranges \in Seq((Nat \ {0}) \X Nat)
    /\ \A k \in DOMAIN Ranges : Ranges[k][1] <= Ranges[k][2]
    /\ \A j, k \in DOMAIN Ranges :
          j # k => Ranges[j][2] < Ranges[k][1] \/ Ranges[k][2] < Ranges[j][1]
    /\ Grain \in Nat /\ Hardware \in Nat \ {0} /\ None \notin Workers
    /\ Scenarios \subseteq [kind : {"static", "auto", "invoke"}, thrower : Nat, early : BOOLEAN]

Calls == DOMAIN Ranges
Items == UNION {Ranges[k][1] .. Ranges[k][2] : k \in Calls}
Root(k) == Ranges[k][1]
Roots == {Root(k) : k \in Calls}
RangeOf(k) == Ranges[k][1] .. Ranges[k][2]

VARIABLES
    scenario, \* kind: the algorithm and partitioner, "static", "auto" or
              \* "invoke"; thrower: the item that throws, or 0; early: a wait
              \* may return early (threadpool_wait_handler)
    stack,    \* stack[w]: the tasks whose functions worker w is in
    st,       \* st[b]: "none", "queued", "running", "completed",
              \* "canceled", "gone" (destroyed)
    held,     \* the tasks that the scheduler still has a reference to
    frame,    \* frame[b]: the frames of task b's function
    runs,     \* runs[i]: how often item i was processed
    stolen    \* the tasks begun by another thread than split them off

kind == scenario.kind
thrower == scenario.thrower
early == scenario.early
parVars == <<scenario, stack, st, held, frame, runs, stolen>>

-----------------------------------------------------------------------------
(* Partitioners.  num and thread are num_threads and last_thread.           *)

Length(p) == p.last - p.first + 1
UpTo(first, last) == [n \in 1 .. last - first + 1 |-> first + n - 1]

\* std::min and std::max on std::size_t
Least(a, b) == IF a < b THEN a ELSE b
Greatest(a, b) == IF a > b THEN a ELSE b

auto_grain_size(dist) == Least(2048, Greatest(1, dist \div (8 * Hardware)))

Whole(k) ==
    LET n == Ranges[k][2] - Ranges[k][1] + 1 IN
    [first |-> Ranges[k][1], last |-> Ranges[k][2],
     grain |-> CASE kind = "static" -> Grain
                 [] kind = "auto" -> auto_grain_size(n)
                 [] kind = "invoke" -> 1,
     num |-> 0, thread |-> None]

\* Mutant: the item at the cut goes to both sides.
CutBehind(p, at) ==
    [own |-> [p EXCEPT !.last = at], rest |-> [p EXCEPT !.first = at]]

\* What stays with the parent, and what is split off: from item `at' on.
Cut(p, at) ==
    [own |-> [p EXCEPT !.last = at - 1], rest |-> [p EXCEPT !.first = at]]
Uncut(p) == Cut(p, p.last + 1)

split_static(p) ==
    IF Length(p) <= p.grain THEN Uncut(p)
    ELSE Cut(p, p.first + (Length(p) + 1) \div 2)

\* Mutant: a split does not share the threads out.
split_auto_all(p, w) ==
    IF Length(p) <= p.grain \/ Hardware <= 1 THEN Uncut(p)
    ELSE Cut([p EXCEPT !.num = Hardware, !.thread = w],
             p.first + (Length(p) + 1) \div 2)

split_auto(p, w) ==
    LET num == IF p.thread # w THEN Hardware ELSE p.num
        halves == Cut([p EXCEPT !.thread = w], p.first + (Length(p) + 1) \div 2)
    IN  IF Length(p) <= p.grain \/ num <= 1
        THEN Uncut(p)
        ELSE [own |-> [halves.own EXCEPT !.num = num - num \div 2],
              rest |-> [halves.rest EXCEPT !.num = num \div 2]]

\* parallel_invoke_internal<Start, Count>
split_invoke(p) ==
    IF Length(p) = 1 THEN Uncut(p) ELSE Cut(p, p.first + Length(p) \div 2)

Split(p, w) ==
    CASE kind = "static" -> split_static(p)
      [] kind = "auto" -> split_auto(p, w)
      [] kind = "invoke" -> split_invoke(p)

-----------------------------------------------------------------------------
(* A task's function, all of its recursive calls together: it splits until  *)
(* it cannot, works on what is left, and then joins and destroys what it    *)
(* split off, the last one first.  An exception only destroys.              *)

Frame(p) == [pc |-> "split", part |-> p, kids |-> <<>>, out |-> <<>>, thrown |-> FALSE]

\* What a result has besides items: the initial value, from which every part
\* starts; what get() may return when the wait was early.
Start == 0
Unset == -1

ParInit ==
    /\ scenario \in Scenarios
    /\ stack = [w \in Workers |-> <<>>]
    /\ st = [b \in Items |-> IF b \in Roots THEN "queued" ELSE "none"]
    /\ held = Roots
    /\ frame = [b \in Items |->
                  Frame(IF b \in Roots THEN Whole(CHOOSE k \in Calls : Root(k) = b)
                        ELSE [first |-> b, last |-> b, grain |-> 1,
                              num |-> 0, thread |-> None])]
    /\ runs = [i \in Items |-> 0]
    /\ stolen = {}

Finished(b) == st[b] \in {"completed", "canceled"}

\* Worker w is in the function of b, at pc; its innermost subtask.
In(w, b, pc) == stack[w] # <<>> /\ Last(stack[w]) = b /\ frame[b].pc = pc
Kid(b) == Last(frame[b].kids)

\* Mutant: a worker that waits does nothing else.
IdleOutside(w) == stack[w] = <<>>

\* The worker has nothing to do, or waits for its innermost subtask.
Idle(w) ==
    \/ stack[w] = <<>>
    \/ \E b \in Items :
          /\ In(w, b, "join") \/ In(w, b, "destroy")
          /\ frame[b].kids # <<>>
          /\ ~ Finished(Kid(b))

Begin(w, b) ==
    /\ st[b] = "queued"
    /\ Idle(w)
    /\ stack' = [stack EXCEPT ![w] = Append(@, b)]
    /\ st' = [st EXCEPT ![b] = "running"]
    /\ stolen' = IF frame[b].part.thread \in {None, w} THEN stolen ELSE stolen \cup {b}
    /\ UNCHANGED <<scenario, held, frame, runs>>

\* Split, and local_spawn what was split off.
Fork(w, b) ==
    LET parts == Split(frame[b].part, w)
        kid == parts.rest.first
    IN
    /\ In(w, b, "split")
    /\ IF Length(parts.rest) = 0
       THEN /\ frame' = [frame EXCEPT ![b].pc = "work", ![b].part = parts.own]
            /\ UNCHANGED <<st, held>>
       ELSE /\ frame' = [frame EXCEPT ![b].part = parts.own,
                                      ![b].kids = Append(@, kid),
                                      ![kid] = Frame(parts.rest)]
            /\ st' = [st EXCEPT ![kid] = "queued"]
            /\ held' = held \cup {kid}
    /\ UNCHANGED <<scenario, stack, runs, stolen>>

\* The items of the part that is left, up to one that throws.
Work(w, b) ==
    LET part == frame[b].part
        done == part.first .. (IF thrower \in part.first .. part.last THEN thrower ELSE part.last)
    IN
    /\ In(w, b, "work")
    /\ runs' = [i \in Items |-> IF i \in done THEN runs[i] + 1 ELSE runs[i]]
    /\ frame' = IF thrower \in done
                THEN [frame EXCEPT ![b].pc = "destroy", ![b].thrown = TRUE]
                ELSE [frame EXCEPT ![b].pc = "join",
                                   ![b].out = <<Start>> \o UpTo(part.first, part.last)]
    /\ UNCHANGED <<scenario, stack, st, held, stolen>>

\* Mutant: the result of the subtask is combined from the wrong side.
JoinSwapped(w, b) ==
    LET kid == Kid(b) IN
    /\ In(w, b, "join")
    /\ frame[b].kids # <<>>
    /\ Finished(kid)
    /\ frame' = IF st[kid] = "canceled"
                THEN [frame EXCEPT ![b].pc = "destroy", ![b].thrown = TRUE]
                ELSE [frame EXCEPT ![b].pc = "destroy", ![b].out = frame[kid].out \o @]
    /\ UNCHANGED <<scenario, stack, st, held, runs, stolen>>

\* get(): wait, throw or return the result.
Join(w, b) ==
    LET kid == Kid(b)
        Return(result) == frame' = [frame EXCEPT ![b].pc = "destroy", ![b].out = @ \o result]
    IN
    /\ In(w, b, "join")
    /\ frame[b].kids # <<>>
    /\ \/ st[kid] = "completed" /\ Return(frame[kid].out)
       \/ /\ st[kid] = "canceled"
          /\ frame' = [frame EXCEPT ![b].pc = "destroy", ![b].thrown = TRUE]
       \/ early /\ ~ Finished(kid) /\ Return(<<Unset>>)
    /\ UNCHANGED <<scenario, stack, st, held, runs, stolen>>

\* Mutant: the destructor only waits for the task to have finished.
DestroyUnheld(w, b) ==
    /\ In(w, b, "destroy")
    /\ frame[b].kids # <<>>
    /\ Finished(Kid(b))
    /\ st' = [st EXCEPT ![Kid(b)] = "gone"]
    /\ frame' = [frame EXCEPT ![b].kids = Front(@),
                              ![b].pc = IF frame[b].thrown THEN "destroy" ELSE "join"]
    /\ UNCHANGED <<scenario, stack, held, runs, stolen>>

\* ~local_task: wait, and spin until the scheduler has let go.
Destroy(w, b) ==
    /\ In(w, b, "destroy")
    /\ frame[b].kids # <<>>
    /\ Kid(b) \notin held
    /\ st' = [st EXCEPT ![Kid(b)] = "gone"]
    /\ frame' = [frame EXCEPT ![b].kids = Front(@),
                              ![b].pc = IF frame[b].thrown THEN "destroy" ELSE "join"]
    /\ UNCHANGED <<scenario, stack, held, runs, stolen>>

\* The function returns or throws: root_exec_func and finish.
Finish(w, b) ==
    /\ In(w, b, "join") \/ In(w, b, "destroy")
    /\ frame[b].kids = <<>>
    /\ frame' = [frame EXCEPT ![b].pc = "finished"]
    /\ st' = [st EXCEPT ![b] = IF frame[b].thrown THEN "canceled" ELSE "completed"]
    /\ UNCHANGED <<scenario, stack, held, runs, stolen>>

\* The scheduler lets go of the task.
Release(w, b) ==
    /\ In(w, b, "finished")
    /\ stack' = [stack EXCEPT ![w] = Front(@)]
    /\ held' = held \ {b}
    /\ UNCHANGED <<scenario, st, frame, runs, stolen>>

-----------------------------------------------------------------------------
\* The parts into which call k has been split: their tasks.
Parts(k) == {b \in RangeOf(k) : st[b] # "none"}

\* Nobody processes an item twice, and a call that returns normally has
\* processed each: the parts that partitioners split off (partitioner.h:59, 105,
\* parallel_invoke.h:34) are disjoint and exhaustive, and the join misses none.
EachItemOnce ==
    /\ \A i \in Items : runs[i] <= 1
    /\ ~ early => \A k \in Calls :
          st[Root(k)] = "completed" => \A i \in RangeOf(k) : runs[i] = 1

\* An exception in any part reaches the caller through all the joins between, and
\* a call throws nothing else (parallel_for.h:45).  An early wait loses exceptions
\* as well as results, which is why it is excluded.
ExceptionReaches ==
    ~ early => \A k \in Calls :
       /\ st[Root(k)] = "canceled" => thrower \in RangeOf(k)
       /\ st[Root(k)] = "completed" => thrower \notin RangeOf(k)

Starts(s) == {n \in DOMAIN s : s[n] = Start}

\* Apart from initial values, s is the items from first to last in that order.
ItemsInOrder(s, first, last) ==
    /\ {s[n] : n \in DOMAIN s \ Starts(s)} = first .. last
    /\ \A m, n \in DOMAIN s \ Starts(s) : m < n => s[m] < s[n]

\* Without an exception the partial results are combined in the order of the items
\* (parallel_reduce.h:56), whoever has processed them.  The initial value comes in
\* once for each part, and so depends on the partitioner.
ResultsInOrder ==
    ~ early => \A k \in Calls :
       st[Root(k)] = "completed" =>
          LET out == frame[Root(k)].out IN
          /\ ItemsInOrder(out, Ranges[k][1], Ranges[k][2])
          /\ Cardinality(Starts(out)) = Cardinality(Parts(k))

Outcome == ExceptionReaches /\ ResultsInOrder

\* A subtask refers to its parent's frame, and lives there: from its spawn until
\* the scheduler's last access, that frame is on a stack, also when the parent's
\* half throws (parallel_for.h:45) or its wait is early (task.h:428).
FramesOutlive ==
    \A b \in Items :
       b \in held => \/ b \in Roots
                     \/ st[b] # "gone" /\ \E c \in Items, w \in Workers :
                           b \in ToSet(frame[c].kids) /\ c \in ToSet(stack[w])

\* auto_partitioner `initially divides the range into one chunk for each
\* available thread' (partitioner.h:150) and splits `further if a chunk gets
\* stolen': a steal adds a chunk for each other thread at most.
ChunksBounded ==
    kind = "auto" => \A k \in Calls :
       Cardinality(Parts(k)) <= Hardware + Cardinality(stolen \cap RangeOf(k)) * (Hardware - 1)
=============================================================================
