----------------------------- MODULE ThreadPool -----------------------------
(***************************************************************************)
(* threadpool_scheduler, from its construction to the end of its           *)
(* destructor, running the tasks of parallel_for: a task spawns its        *)
(* subtasks as local_tasks, then gets and destroys each of them, the last  *)
(* one first.  A worker that waits runs other tasks meanwhile, on top of   *)
(* the waiting one: its call stack alternates task frames and frames of    *)
(* thread_task_loop.                                                       *)
(*                                                                         *)
(* The main thread is outside the pool: it schedules the root tasks        *)
(* through the public queue, may wait for them (generic_wait_handler), and *)
(* destroys the pool.                                                      *)
(*                                                                         *)
(* A step is one access to shared state.  A queue operation is one step    *)
(* (WorkStealQueue shows that a queue behaves like that); so is what runs  *)
(* under the pool's lock, unless it touches what the lock does not guard.  *)
(* What a task computes is left out.                                       *)
(***************************************************************************)
EXTENDS Integers, FiniteSets, SequencesExt

CONSTANTS Workers,    \* the threads of the pool
          Tasks,
          Kids,       \* Kids[t]: the subtasks that task t spawns, in order
          Roots,      \* the tasks that the main thread schedules, in order
          None        \* no task, no thread

Main == "main"

\* A task is created once: by one task, in one place, or by the main thread.
ASSUME ThreadPoolAssumption ==
    /\ IsFiniteSet(Workers) /\ Workers # {} /\ Main \notin Workers
    /\ None \notin Tasks \cup Workers
    /\ Kids \in [Tasks -> Seq(Tasks)]
    /\ Roots \in Seq(Tasks)
    /\ \A s, t \in Tasks : \A i \in DOMAIN Kids[s], j \in DOMAIN Kids[t] :
          Kids[s][i] = Kids[t][j] => s = t /\ i = j
    /\ \A i, j \in DOMAIN Roots : Roots[i] = Roots[j] => i = j
    /\ \A i \in DOMAIN Roots, t \in Tasks : \A j \in DOMAIN Kids[t] : Kids[t][j] # Roots[i]

Threads == Workers \cup {Main}

VARIABLES
    stack,    \* stack[w]: the frames of worker w, innermost last
    main,     \* the main thread: pc, and the root it is at
    queue,    \* queue[w]: work_steal_queue of w, top first
    public,   \* public_queue
    lock,     \* the holder of the pool's mutex across steps, or None
    waiters,  \* the waiters array up to num_waiters
    shutdown,
    left,     \* shutdown_num_threads
    joined,   \* shutdown_complete_event was notified
    event,    \* event[p]: event_mask of the task_wait_event of thread p
    state,    \* state[t]: "new", "queued", "running", "completed", "released"
    locked,   \* locked[t]: the continuation vector of t is locked
    conts     \* conts[t]: the threads whose event the continuations of t signal

poolVars == <<lock, waiters, shutdown, left, joined>>
taskVars == <<state, locked, conts>>
vars == <<stack, main, queue, public, poolVars, event, taskVars>>

-----------------------------------------------------------------------------
(* Frames.  task: the task that runs, or that a loop waits for (None in the *)
(* main loop of a worker); n: the subtask a task is at; added: the loop has *)
(* added its continuation; victims: the queues a stealing loop has yet to   *)
(* look into.                                                               *)

LoopFrame(t) ==
    [kind |-> "loop", pc |-> "check", task |-> t, n |-> 0,
     added |-> FALSE, victims |-> {}]
TaskFrame(t) ==
    [kind |-> "task", pc |-> "spawn", task |-> t, n |-> 1,
     added |-> FALSE, victims |-> {}]

Active(w) == stack[w] # <<>>
Top(w) == Last(stack[w])
At(w, kind, pc) == Active(w) /\ Top(w).kind = kind /\ Top(w).pc = pc

\* Worker w's innermost frame becomes f; w returns from it; w calls g, with f
\* where it is when g returns.
Goto(w, f) == stack' = [stack EXCEPT ![w] = Append(Front(@), f)]
Return(w) == stack' = [stack EXCEPT ![w] = Front(@)]
Call(w, f, g) == stack' = [stack EXCEPT ![w] = Front(@) \o <<f, g>>]

\* task_run_handle::run of task t from the stealing loop of worker w.
Run(w, t) ==
    /\ Call(w, [Top(w) EXCEPT !.pc = "check"], TaskFrame(t))
    /\ state' = [state EXCEPT ![t] = "running"]
    /\ UNCHANGED <<locked, conts>>

IsFinished(t) == state[t] \in {"completed", "released"}

Init ==
    /\ stack = [w \in Workers |-> <<LoopFrame(None)>>]
    /\ main = [pc |-> "schedule", n |-> 1]
    /\ queue = [w \in Workers |-> <<>>]
    /\ public = <<>>
    /\ lock = None
    /\ waiters = <<>>
    /\ shutdown = FALSE
    /\ left = 0
    /\ joined = FALSE
    /\ event = [p \in Threads |-> {}]
    /\ state = [t \in Tasks |-> "new"]
    /\ locked = [t \in Tasks |-> FALSE]
    /\ conts = [t \in Tasks |-> <<>>]

Signal(p, e) == event' = [event EXCEPT ![p] = @ \cup {e}]

\* Mutant: the waiter is taken off the list without a signal.
WakeOneLost ==
    /\ waiters' = IF waiters = <<>> THEN waiters ELSE Front(waiters)
    /\ UNCHANGED event

\* `waiters[--num_waiters]->signal(task_available)', if there is a waiter
WakeOne ==
    IF waiters = <<>>
    THEN UNCHANGED <<waiters, event>>
    ELSE /\ Signal(Last(waiters), "available")
         /\ waiters' = Front(waiters)

-----------------------------------------------------------------------------
(* thread_task_loop of worker w.                                            *)

\* Return if the task waited for has finished (its event, if there is one).
LoopCheck(w) ==
    LET f == Top(w) IN
    /\ At(w, "loop", "check")
    /\ IF /\ f.task # None
          /\ IF f.added THEN "finished" \in event[w] ELSE IsFinished(f.task)
       THEN Return(w)
       ELSE Goto(w, [f EXCEPT !.pc = "pop"])
    /\ event' = IF f.task # None /\ f.added
                THEN [event EXCEPT ![w] = @ \ {"finished"}] ELSE event
    /\ UNCHANGED <<main, queue, public, poolVars, taskVars>>

LoopPop(w) ==
    /\ At(w, "loop", "pop")
    /\ IF queue[w] # <<>>
       THEN /\ Run(w, Last(queue[w]))
            /\ queue' = [queue EXCEPT ![w] = Front(@)]
       ELSE /\ Goto(w, [Top(w) EXCEPT !.pc = "steal", !.victims = Workers \ {w}])
            /\ UNCHANGED <<queue, taskVars>>
    /\ UNCHANGED <<main, public, poolVars, event>>

\* steal_task: one victim after the other, in any order.
LoopSteal(w) ==
    /\ At(w, "loop", "steal")
    /\ \E v \in Top(w).victims :
          IF queue[v] # <<>>
          THEN /\ Run(w, Head(queue[v]))
               /\ queue' = [queue EXCEPT ![v] = Tail(@)]
          ELSE /\ Goto(w, [Top(w) EXCEPT !.victims = @ \ {v}])
               /\ UNCHANGED <<queue, taskVars>>
    /\ UNCHANGED <<main, public, poolVars, event>>

\* Mutant: at shutdown a `break' leaves the stealing loop only.
LoopLockBreaks(w) ==
    LET f == Top(w) IN
    /\ At(w, "loop", "steal")
    /\ f.victims = {}
    /\ lock = None
    /\ \/ /\ public # <<>>
          /\ Run(w, Head(public))
          /\ public' = Tail(public)
          /\ UNCHANGED <<lock, left, joined>>
       \/ /\ public = <<>> /\ f.task = None /\ shutdown
          /\ Goto(w, [f EXCEPT !.pc = "check"])
          /\ UNCHANGED <<public, lock, left, joined, taskVars>>
       \/ /\ public = <<>> /\ ~ (f.task = None /\ shutdown)
          /\ Goto(w, [f EXCEPT !.pc = IF f.task # None /\ ~ f.added
                                      THEN "on_finish" ELSE "enlist"])
          /\ lock' = w
          /\ UNCHANGED <<public, left, joined, taskVars>>
    /\ UNCHANGED <<main, queue, waiters, shutdown, event>>

\* Nothing stolen: under the lock, run a public task, leave, or go to sleep.
LoopLock(w) ==
    LET f == Top(w) IN
    /\ At(w, "loop", "steal")
    /\ f.victims = {}
    /\ lock = None
    /\ \/ /\ public # <<>>
          /\ Run(w, Head(public))
          /\ public' = Tail(public)
          /\ UNCHANGED <<lock, left, joined>>
       \/ /\ public = <<>> /\ f.task = None /\ shutdown
          /\ Return(w)
          /\ left' = left - 1
          /\ joined' = (joined \/ left = 1)
          /\ UNCHANGED <<public, lock, taskVars>>
       \/ /\ public = <<>> /\ ~ (f.task = None /\ shutdown)
          /\ Goto(w, [f EXCEPT !.pc = IF f.task # None /\ ~ f.added
                                      THEN "on_finish" ELSE "enlist"])
          /\ lock' = w
          /\ UNCHANGED <<public, left, joined, taskVars>>
    /\ UNCHANGED <<main, queue, waiters, shutdown, event>>

\* wait_task.on_finish: the continuation runs at once if the task has finished.
OnFinish(t, p) ==
    \/ /\ ~ locked[t]
       /\ conts' = [conts EXCEPT ![t] = Append(@, p)]
       /\ UNCHANGED event
    \/ /\ IsFinished(t)
       /\ Signal(p, "finished")
       /\ UNCHANGED conts

LoopOnFinish(w) ==
    LET f == Top(w) IN
    /\ At(w, "loop", "on_finish")
    /\ OnFinish(f.task, w)
    /\ Goto(w, [f EXCEPT !.pc = "enlist", !.added = TRUE])
    /\ UNCHANGED <<main, queue, public, poolVars, state, locked>>

LoopEnlist(w) ==
    /\ At(w, "loop", "enlist")
    /\ waiters' = Append(waiters, w)
    /\ lock' = None
    /\ Goto(w, [Top(w) EXCEPT !.pc = "wait"])
    /\ UNCHANGED <<main, queue, public, shutdown, left, joined, event, taskVars>>

\* event.wait(): blocks while event_mask is 0 and returns `result != 0'
LoopWait(w) ==
    /\ At(w, "loop", "wait")
    /\ event[w] # {}
    /\ event' = [event EXCEPT ![w] = {}]
    /\ Goto(w, [Top(w) EXCEPT !.pc = "delist"])
    /\ UNCHANGED <<main, queue, public, poolVars, taskVars>>

\* Remove w from waiters by swapping with the last, if it is still there.
Without(s, w) ==
    IF \E i \in DOMAIN s : s[i] = w
    THEN LET i == CHOOSE i \in DOMAIN s : s[i] = w
                       /\ \A j \in 1 .. i - 1 : s[j] # w
         IN  Front([s EXCEPT ![i] = Last(s)])
    ELSE s

\* Mutant: a worker woken by task_finished stays in waiters.
LoopDelistForgets(w) ==
    LET f == Top(w) IN
    /\ At(w, "loop", "delist")
    /\ lock = None
    /\ IF f.task # None
       THEN Return(w)
       ELSE Goto(w, [f EXCEPT !.pc = "steal", !.victims = Workers \ {w}])
    /\ UNCHANGED <<main, queue, public, poolVars, event, taskVars>>

\* wait() returned 1, which is task_finished, whatever it was woken for.
LoopDelist(w) ==
    LET f == Top(w) IN
    /\ At(w, "loop", "delist")
    /\ lock = None
    /\ waiters' = Without(waiters, w)
    /\ IF f.task # None
       THEN Return(w)
       ELSE Goto(w, [f EXCEPT !.pc = "steal", !.victims = Workers \ {w}])
    /\ UNCHANGED <<main, queue, public, lock, shutdown, left, joined, event, taskVars>>

Loop(w) ==
    \/ LoopCheck(w) \/ LoopPop(w) \/ LoopSteal(w) \/ LoopLock(w)
    \/ LoopOnFinish(w) \/ LoopEnlist(w) \/ LoopWait(w) \/ LoopDelist(w)

-----------------------------------------------------------------------------
(* A task that worker w runs.                                               *)

Kid(f) == Kids[f.task][f.n]

\* local_spawn: threadpool_scheduler::schedule, from inside the pool.
TaskSpawn(w) ==
    LET f == Top(w) IN
    /\ At(w, "task", "spawn")
    /\ IF f.n <= Len(Kids[f.task])
       THEN /\ queue' = [queue EXCEPT ![w] = Append(@, Kid(f))]
            /\ state' = [state EXCEPT ![Kid(f)] = "queued"]
            /\ Goto(w, [f EXCEPT !.pc = "peek"])
       ELSE /\ Goto(w, [f EXCEPT !.pc = "get", !.n = @ - 1])
            /\ UNCHANGED <<queue, state>>
    /\ UNCHANGED <<main, public, poolVars, event, locked, conts>>

\* num_waiters is read without the lock ...
TaskPeek(w) ==
    LET f == Top(w) IN
    /\ At(w, "task", "peek")
    /\ Goto(w, IF waiters = <<>> THEN [f EXCEPT !.pc = "spawn", !.n = @ + 1]
                                 ELSE [f EXCEPT !.pc = "wake"])
    /\ UNCHANGED <<main, queue, public, poolVars, event, taskVars>>

\* ... and again with it.
TaskWake(w) ==
    LET f == Top(w) IN
    /\ At(w, "task", "wake")
    /\ lock = None
    /\ WakeOne
    /\ Goto(w, [f EXCEPT !.pc = "spawn", !.n = @ + 1])
    /\ UNCHANGED <<main, queue, public, lock, shutdown, left, joined, taskVars>>

\* get(): wait_and_throw waits, unless the subtask has finished.
TaskGet(w) ==
    LET f == Top(w) IN
    /\ At(w, "task", "get")
    /\ IF f.n = 0
       THEN Goto(w, [f EXCEPT !.pc = "finish"])
       ELSE LET g == [f EXCEPT !.pc = "result"] IN
            IF IsFinished(Kid(f)) THEN Goto(w, g)
                                  ELSE Call(w, g, LoopFrame(Kid(f)))
    /\ UNCHANGED <<main, queue, public, poolVars, event, taskVars>>

\* It reads the result, and ~local_task waits once more.
TaskResult(w) ==
    LET f == Top(w)
        g == [f EXCEPT !.pc = "unique"]
    IN
    /\ At(w, "task", "result")
    /\ IF IsFinished(Kid(f)) THEN Goto(w, g)
                             ELSE Call(w, g, LoopFrame(Kid(f)))
    /\ UNCHANGED <<main, queue, public, poolVars, event, taskVars>>

\* Mutant: ~local_task does not wait for the other references.
TaskUniqueAtOnce(w) ==
    LET f == Top(w) IN
    /\ At(w, "task", "unique")
    /\ Goto(w, [f EXCEPT !.pc = "get", !.n = @ - 1])
    /\ UNCHANGED <<main, queue, public, poolVars, event, taskVars>>

\* ~local_task spins until nobody else refers to the subtask.
TaskUnique(w) ==
    LET f == Top(w) IN
    /\ At(w, "task", "unique")
    /\ state[Kid(f)] = "released"
    /\ Goto(w, [f EXCEPT !.pc = "get", !.n = @ - 1])
    /\ UNCHANGED <<main, queue, public, poolVars, event, taskVars>>

\* task_base::finish: the state, ...
TaskFinish(w) ==
    /\ At(w, "task", "finish")
    /\ state' = [state EXCEPT ![Top(w).task] = "completed"]
    /\ Goto(w, [Top(w) EXCEPT !.pc = "lock"])
    /\ UNCHANGED <<main, queue, public, poolVars, event, locked, conts>>

\* ... then flush_and_lock: the continuations ...
TaskLock(w) ==
    /\ At(w, "task", "lock")
    /\ locked' = [locked EXCEPT ![Top(w).task] = TRUE]
    /\ Goto(w, [Top(w) EXCEPT !.pc = "flush"])
    /\ UNCHANGED <<main, queue, public, poolVars, event, state, conts>>

TaskFlush(w) ==
    LET t == Top(w).task IN
    /\ At(w, "task", "flush")
    /\ conts[t] # <<>>
    /\ Signal(Head(conts[t]), "finished")
    /\ conts' = [conts EXCEPT ![t] = Tail(@)]
    /\ UNCHANGED <<stack, main, queue, public, poolVars, state, locked>>

\* ... and the task_run_handle lets go of the task.
TaskRelease(w) ==
    LET t == Top(w).task IN
    /\ At(w, "task", "flush")
    /\ conts[t] = <<>>
    /\ state' = [state EXCEPT ![t] = "released"]
    /\ Return(w)
    /\ UNCHANGED <<main, queue, public, poolVars, event, locked, conts>>

RunTask(w) ==
    \/ TaskSpawn(w) \/ TaskPeek(w) \/ TaskWake(w)
    \/ TaskGet(w) \/ TaskResult(w) \/ TaskUnique(w)
    \/ TaskFinish(w) \/ TaskLock(w) \/ TaskFlush(w) \/ TaskRelease(w)

-----------------------------------------------------------------------------
(* The main thread.                                                         *)

\* schedule, from outside the pool.
MainSchedule ==
    /\ main.pc = "schedule"
    /\ main.n <= Len(Roots)
    /\ lock = None
    /\ public' = Append(public, Roots[main.n])
    /\ state' = [state EXCEPT ![Roots[main.n]] = "queued"]
    /\ WakeOne
    /\ main' = [main EXCEPT !.n = @ + 1]
    /\ UNCHANGED <<stack, queue, lock, shutdown, left, joined, locked, conts>>

MainScheduled ==
    /\ main.pc = "schedule"
    /\ main.n > Len(Roots)
    /\ \E pc \in {"wait", "destroy"} : main' = [pc |-> pc, n |-> Len(Roots)]
    /\ UNCHANGED <<stack, queue, public, poolVars, event, taskVars>>

\* generic_wait_handler: a new event, a continuation, wait.
MainWait ==
    /\ main.pc = "wait"
    /\ IF main.n = 0
       THEN /\ main' = [main EXCEPT !.pc = "destroy"]
            /\ UNCHANGED <<event, conts>>
       ELSE IF IsFinished(Roots[main.n])
       THEN /\ main' = [main EXCEPT !.pc = "unique"]
            /\ UNCHANGED <<event, conts>>
       ELSE /\ OnFinish(Roots[main.n], Main)
            /\ main' = [main EXCEPT !.pc = "sleep"]
    /\ UNCHANGED <<stack, queue, public, poolVars, state, locked>>

MainSleep ==
    /\ main.pc = "sleep"
    /\ event[Main] # {}
    /\ event' = [event EXCEPT ![Main] = {}]
    /\ main' = [main EXCEPT !.pc = "unique"]
    /\ UNCHANGED <<stack, queue, public, poolVars, taskVars>>

MainUnique ==
    /\ main.pc = "unique"
    /\ state[Roots[main.n]] = "released"
    /\ main' = [pc |-> "wait", n |-> main.n - 1]
    /\ UNCHANGED <<stack, queue, public, poolVars, event, taskVars>>

\* Mutant: the destructor counts one thread too few.
MainDestroyMiscounts ==
    /\ main.pc = "destroy"
    /\ lock = None
    /\ shutdown' = TRUE
    /\ event' = [p \in Threads |->
                    IF Contains(waiters, p) THEN event[p] \cup {"available"}
                                            ELSE event[p]]
    /\ waiters' = <<>>
    /\ left' = Cardinality(Workers) - 1
    /\ main' = [main EXCEPT !.pc = "join"]
    /\ UNCHANGED <<stack, queue, public, lock, joined, taskVars>>

\* ~threadpool_scheduler wakes everybody, then waits for the last to leave.
MainDestroy ==
    /\ main.pc = "destroy"
    /\ lock = None
    /\ shutdown' = TRUE
    /\ event' = [p \in Threads |->
                    IF Contains(waiters, p) THEN event[p] \cup {"available"}
                                            ELSE event[p]]
    /\ waiters' = <<>>
    /\ left' = Cardinality(Workers)
    /\ main' = [main EXCEPT !.pc = "join"]
    /\ UNCHANGED <<stack, queue, public, lock, joined, taskVars>>

\* `shutdown_complete_event.wait(locked)' has no predicate: it returns when the
\* last worker has notified it, or at any time, as condition variables may.  The
\* workers that are left go on in the freed pool, here as if it kept its contents.
MainJoin ==
    /\ main.pc = "join"
    /\ lock = None
    /\ main' = [main EXCEPT !.pc = "freed"]
    /\ UNCHANGED <<stack, queue, public, poolVars, event, taskVars>>

MainStep ==
    \/ MainSchedule \/ MainScheduled \/ MainWait \/ MainSleep \/ MainUnique
    \/ MainDestroy \/ MainJoin

Terminated == main.pc = "freed" /\ (\A w \in Workers : ~ Active(w)) /\ UNCHANGED vars

Next == MainStep \/ (\E w \in Workers : Loop(w) \/ RunTask(w)) \/ Terminated

Spec == Init /\ [][Next]_vars

\* Every thread that can take a step keeps running; a wake-up that nobody sent
\* cannot be relied on.
FairSpec ==
    /\ Spec
    /\ WF_vars(MainStep /\ (main.pc = "join" => joined))
    /\ \A w \in Workers : WF_vars(Loop(w) \/ RunTask(w))

-----------------------------------------------------------------------------
Frames(w) == {stack[w][i] : i \in DOMAIN stack[w]}

TypeOK ==
    /\ \A w \in Workers : \A f \in Frames(w) :
          /\ f.kind = "loop" => f.task \in Tasks \cup {None}
          /\ f.kind = "task" => f.task \in Tasks /\ f.n \in 0 .. Len(Kids[f.task]) + 1
          /\ f.victims \subseteq Workers \ {w}
    /\ \A w \in Workers : queue[w] \in Seq(Tasks)
    /\ public \in Seq(Tasks)
    /\ lock \in Workers \cup {None}
    /\ waiters \in Seq(Workers)
    /\ left \in 0 .. Cardinality(Workers)
    /\ event \in [Threads -> SUBSET {"finished", "available"}]
    /\ state \in [Tasks -> {"new", "queued", "running", "completed", "released"}]
    /\ conts \in [Tasks -> Seq(Threads)]

Asleep(w) == At(w, "loop", "wait") /\ event[w] = {}

\* A worker is in the waiters array at most once, so the array, which has one
\* element per worker, is long enough; and only while it sleeps or is about to
\* take itself out: whoever is woken from the list has really left its loop.
WaitersOnce ==
    /\ \A i, j \in DOMAIN waiters : i # j => waiters[i] # waiters[j]
    /\ \A i \in DOMAIN waiters :
          At(waiters[i], "loop", "wait") \/ At(waiters[i], "loop", "delist")

\* The pool never falls asleep on a queued task, although schedule looks at
\* num_waiters without the lock: as long as a task is queued some worker is
\* awake or has been signalled.
NoWorkLeftBehind ==
    public # <<>> \/ (\E w \in Workers : queue[w] # <<>>) =>
        \E w \in Workers : Active(w) /\ ~ Asleep(w)

\* A local_task lives on the stack of the task that spawned it.  As long as a
\* queue, a worker or its own finish() may touch it, that frame is there: this
\* is the join that parallel_for promises.
LocalTasksOutlived ==
    \A t \in Tasks : \A k \in DOMAIN Kids[t] :
        state[Kids[t][k]] \in {"queued", "running", "completed"} =>
            \E w \in Workers : \E f \in Frames(w) :
                f.kind = "task" /\ f.task = t /\ f.n >= k

\* Whoever counts shutdown_num_threads down to 0 is the last: once the destructor
\* has been notified every worker has left its loop, and no task has been cut off
\* in the middle (`Wait for all currently running tasks to finish',
\* threadpool_scheduler.cpp:238).
NotifiedAfterExit ==
    joined => /\ \A w \in Workers : ~ Active(w)
              /\ \A t \in Tasks : state[t] \notin {"running", "completed"}

\* What the main thread waits for is run to its end, with the subtasks, and the
\* destructor returns, without a wake-up that nobody sent: nested waiting, lost
\* signals and early returns never leave everybody waiting.
TasksFinish ==
    /\ \A t \in Tasks :
          state[t] = "queued" /\ main.pc \in {"wait", "sleep", "unique"}
              ~> state[t] = "released"
    /\ main.pc = "destroy" ~> main.pc = "freed"

\* `Wait for the threads to exit' (threadpool_scheduler.cpp:253): when the
\* destructor frees the pool no worker uses it any more.
FreedAfterExit == main.pc = "freed" => \A w \in Workers : ~ Active(w)

\* `Wait for a task to complete' (threadpool_scheduler.cpp:180): when the wait
\* in get() has returned, the subtask has finished and there is a result.
WaitedMeansFinished ==
    \A w \in Workers :
        At(w, "task", "result") => IsFinished(Kid(Top(w)))
=============================================================================
