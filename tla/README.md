# STLL, specified in TLA+

STLL draws a scene lit by hundreds of point lights without a GPU. It projects
every light to a disk on the screen, enters the light into the lists of the
screen tiles that the disk overlaps, packs the lists into two textures, and
lights every pixel with the list of its tile only. The lists are filled by
worker threads without a lock; the threads come from a copy of the Async++
library in `src/TestSTLL/async`. All paths below are relative to
`src/TestSTLL`.

This directory models that program in TLA+, checks the models with TLC on small
instances and proves the main results with TLAPS for instances of any size.
`PROJECT.json` lists components, runs, mutants, findings, hazards and theorems,
and maps every definition that models code to the lines it models.

To check a run, `tlc -config X.cfg M`; to check proofs, `tlapm MProofs.tla`.

## Inventory

| Part | State | Operations | What is hard |
|---|---|---|---|
| Tile light lists: `AsyncList`, `STLLLightListMap`, `STLLRender` (`STLLRasterizer.h`, `.cpp`) | per tile an atomic `m_pos` and a fixed buffer; the atomic `m_count`; two textures and their allocated length | `Clear`, `AddLine`/`Add`, `BuildTexture`, `Render` | lock-free additions at the capacity of a list; a texture kept from frame to frame; everything after the join reads without synchronization |
| Rasterizer (`STLLRasterizer`) | one light's disk, the row it is at | `DrawLight`, `Rasterize` | rounding, the edges of the map, disks smaller than a tile |
| Work stealing queue (`async/work_steal_queue.h`) | `top`, `bottom`, circular arrays | `push`, `pop`, `steal` | a lock-free deque on relaxed atomics, growing while thieves read, indices that wrap around |
| FIFO queue (`async/fifo_queue.h`) | a circular buffer | `push` with its resize, `pop` | wrap-around and resize together |
| Thread pool (`async/threadpool_scheduler.cpp`, `async/task_wait_event.h`) | one queue per worker, a public queue, a list of sleepers, an event per thread, shutdown flags | `schedule`, `thread_task_loop`, the wait handler, the destructor | sleep and wake-up without a lost signal, waits that nest on one stack, shutdown with detached threads |
| Tasks (`async/async++/task.h`, `task_base.h`, `continuation_vector.h`, `ref_count.h`, `cancel.h`) | state, continuations, reference count, result | spawn, `then`, `get`, `wait`, `event_task::set`, cancellation, unwrapping | a continuation added while the task finishes runs once; who destroys what, and when |
| Parallel algorithms (`async/async++/parallel_*.h`, `partitioner.h`, `range.h`) | ranges that are split | `parallel_for`, `parallel_reduce`, `parallel_invoke` | fork and join on the parent's stack, exceptions |
| `when_all`, `when_any` (`async/async++/when_all_any.h`) | a result, an event and a reference count that several continuations share | a continuation on each of several tasks | a `then` that throws half-way; the first finisher against the loop that still fills the result |
| Other schedulers (`async/scheduler.cpp`, `async/async++/scheduler*.h`) | - | inline, FIFO and thread schedulers, wait handlers | waiting from a thread that is not a worker |
| Singleton (`async/singleton.h`) | a flag, storage | first use of the default pool | depends on the compiler |
| Library interface (`stll.h`, `stll.cpp`) | one map, one rasterizer, one renderer | `InitSTLL`, `UpdataSTLL`, `DeinitSTLL` | pointers into textures that the next call replaces |
| Memory pools (`EasyPool.h`, `EasyMath.cpp`) | a free list through an array of marks | `Alloc`, `Free` | exhaustion, elements given back in any order |
| Vectors, quaternions, matrices (`EasyVector.h`, `EasyQuat.h`, `EasyMatrix.h`) | the caller's arrays | motions, products, inverses, cameras, projections, tangents; each for `float` arrays and for SSE registers | two sets of overloads that must agree, shuffles, outputs that are inputs too, conventions of order and sign |
| Demo (`MainWindow.*`), `TAList.h`, angles (`EasyAngle.*`), `EasyArray.h`, traits | | | drawing, tables, allocation; little control |

How they interact. `UpdataSTLL` clears the map and calls `STLLRender::Render`,
which runs `parallel_for` over the lights on the default thread pool. An item
takes a rasterizer, calls `DrawLight`, and that calls `AddLine` on the shared
map for each row of the disk. `parallel_for` spawns one half of its range as a
`local_task`, does the other half and `get`s the first; a worker that waits in
`get` runs other tasks meanwhile, from its own queue, those of other workers, or
the public queue. When the last `get` has returned `Render` calls
`BuildTexture`. So the lists depend on the join, the join on the tasks, the
tasks on the pool and the pool on its queues. The models follow these lines, and
each takes from the one below what that one is checked to provide.

What makes each part correct:

- *Lists*: no two additions own one slot; at the join a list holds each light
  of the frame at most once, nothing else, and misses one only when it is full;
  the textures are the lists.
- *Rasterizer*: a light is in the lists of all tiles its disk overlaps, in no
  list of a tile far from it, and in no row outside the map.
- *Work stealing queue*: it behaves as a deque from which every task is taken
  once, and an empty answer means that there is nothing.
- *FIFO queue*: first in, first out, within its array.
- *Pool*: nobody sleeps on queued work; a subtask never outlives the stack frame
  it lives in; the destructor returns, after the last access of the last worker.
- *Memory pool*: nobody gets an element that is held, or NULL too early; when all
  are held, the answer is NULL.
- *Parallel algorithms*: every item is processed once; results are combined in
  the order of the items and exceptions reach the caller, whichever thread does
  what; every call returns.
- *`when_all`, `when_any`*: the event says what it promises of the inputs, and
  the shared state goes with its last reference, once.
- *Algebra*: a sequence of calls takes points where the motions asked for take
  them, by either set of overloads.

## Modules

| Module | Models | Runs | Theorems |
|---|---|---|---|
| `LightMap` | tile light lists, frame after frame | `structures` | `TileProofs` |
| `TaskDeque` | abstract: what a work stealing queue promises | (property of `workers`) | |
| `WorkStealQueue` | the Chase-Lev deque on x86 memory; implements `TaskDeque` | `workers` | `WorkStealQueueProofs` |
| `ThreadPool` | the pool with the tasks of `parallel_for` | `pool`, `workers`, `pool_early_wait`, `pool_freed` | `ThreadPoolProofs` |
| `TaskPromise` | abstract: one outcome, and each continuation handled once after it, as it requires | (property of `structures`, `event_task_overtaken`) | |
| `EventTask` | an `event_task`, its continuation vector and reference count; implements the weaker form of `TaskPromise` | `structures`, `event_task_overtaken` | `EventTaskProofs` |
| `Parallel` | partitioners; fork and join with results and exceptions | (part of `program`) | `ProgramProofs` |
| `When` | `when_all` and `when_any` | `when_throws`, `when_tasks`; part of `program` | `ProgramProofs` |
| `Program` | parallel calls as tasks, combined by `when_all` or `when_any` | `program` | `ProgramProofs` |
| `Rasterizer` | `Rasterize` of one light | `structures`, `raster_rows` | `TileProofs` |
| `BasicPool` | the memory pool | (part of `structures`) | `ContainersProofs` |
| `FifoQueue` | the circular buffer of the public queue | `fifo_resize` | `ContainersProofs` |
| `Containers` | `BasicPool` and `FifoQueue` | `structures` | `ContainersProofs` |
| `Rational`, `Sse` | numbers; the SSE instructions | (part of `algebra`) | `AlgebraProofs` |
| `EasyVector`, `EasyQuat`, `EasyMatrix`, `Projection` | the algebra, both sets of overloads; what the rasterizer does with it | (part of `algebra`) | `AlgebraProofs` |
| `Transforms` | sequences of matrix calls, kept in three ways | `algebra` | `TransformsProofs` |

`MCThreadPool`, `MCRasterizer`, `MCProgram` and `MCTransforms` hold the values
and symmetries that a `.cfg` cannot express. `MCWorkers` and `MCStructures` check
several modules in one run: a variable `part` names the one that a behaviour is
about, its actions and its fairness are those of the module's own specification,
and the variables of the others keep their initial values. In each module, definitions marked
as mutants or plausible mistakes are variants of an action that a slip in the
code would yield; each is used to confirm that a property really depends on the
code. They are not part of the specification.

### LightMap

A frame is `Clear`, `Fork` (the items of `parallel_for` start, one per light),
the `Item` steps, then `StartBuild`, one `BuildTile` per tile, `EndFrame`. An
item goes through the tiles of its light; an `Add` on a tile is `Reserve` (the
`fetch_add` on `m_pos`), then `Store` (into the slot) and `Tally` (`m_count`),
or, when the list was full, `Undo` (`m_pos--`). These are the atomic operations
of the code, so TLC has every interleaving of them. Which tiles a light covers
is an arbitrary input of every frame; the rasterizer restricts it, and the
properties do not need that it does. `StartBuild` waits for all items: this is
the join, which `ThreadPool` deals with. `Junk` is what `new` leaves in memory.
`buffer` keeps its old entries from frame to frame, as the code does, so that
leftovers would be noticed.

### WorkStealQueue

`push`, `pop` and `steal` as the accesses to shared memory they consist of. The
memory is the x86's: the project builds with Visual Studio for Win32, where a
load is not reordered with a load or a store with a store, but a store waits in
the owner's buffer. `buf` is that buffer, `Flush` the moment the oldest store
becomes visible, and the fence in `pop` and every compare-exchange wait until
the buffer is empty. `mem` is memory as the thieves read it, `own` as the owner does,
who sees its own stores at once. Thieves write nothing but by compare-exchange. An
array that was replaced stays in memory, because the code keeps it until the
queue is destroyed. Arrays go by their sizes, which differ; their slots are found
by remainder, which is what the code's mask gives for a power of two. Indices have
`Width` bits and are compared as the code does, by the sign of their difference.

### FifoQueue

`push` and `pop` run under a lock and are one step each. `overrun` records that
the copy in `push` has run past the new array; there the modelled program ends.

### ThreadPool

From construction to the end of the destructor. `stack[w]` is the call stack of
worker `w`: frames of `thread_task_loop` and of tasks alternate, because a
waiting worker runs other tasks on top. A task does what an inner node of
`parallel_for` does: it spawns its subtasks, then gets and destroys each, the
last one first. The tree of tasks is the constant `Kids`. `Loop...` actions are
the loop, `Task...` the task (with `task_base::finish`, the flushing of
continuations and the wait for the unique reference in `~local_task`), `Main...`
the thread that owns the pool. A step is one access to something shared; what
the code does under the pool's lock is one step unless it touches state the
lock does not guard (the event of a finishing task), and then `lock` is held
across steps. `conts` holds the waiters' events, which is all that
`on_finish` adds.

The destructor is that of the Windows build (`BROKEN_JOIN_IN_DESTRUCTOR`):
workers are detached and count themselves out. The main thread waits for its
tasks before it destroys the pool, or does not; both are in `Next`. Queues are
sequences: `WorkStealQueue` shows that this is right for the workers' queues.
For the public queue it is right up to 31 waiting tasks; `fifo_resize` shows
what happens beyond.

Condition variables may wake up by themselves. All waits loop on their condition
but one: the destructor's (`threadpool_scheduler.cpp:255`) has none, so `MainJoin`
can be taken at any time, and then frees the pool (`main.pc = "freed"`) under the
workers that are left. What they find there is undefined; in the model they go on
as if the memory kept its contents, so that the properties of the workers are
checked beyond that point too. `joined` records that the last worker has notified
the destructor, with or without effect.

### EventTask

`Setters` are threads that share an `event_task` and call `set` or
`set_exception`, or neither; `Owner` destroys it when they have returned, which
C++ demands of a destructor. Each of `Conts` is a continuation and also the
thread that adds it through a `shared_task` of its own; those in `Always` take
the task, the others its value. `fin[s]` and `add[c]` are the program counters
and locals of these threads. `data` is the word of `continuation_vector` (inline
pointer, "is a vector", "is locked"), `vec` and `mutex` are the `vector_data`
behind it. A step is one access to these, so that the compare-exchange loops of
`try_add` and `flush_and_lock` appear with everything that can come between
their load and their exchange; a failed exchange goes back to the branch on the
new word (`Branch`). `Handle` is `run_continuation`: scheduled, or canceled and
its function destroyed. The scheduler runs a scheduled continuation at some
later time (`RunCont`). `refs` counts the references to the event's task:
the event's, one for each `shared_task`, one for each continuation's function.

`add[c].seen` is the state `add_continuation` read first. `RunDirectly` decides
by it, as the code does, even when the task has been canceled since.

`TaskPromise` is what `task.h` says: a continuation that takes the value runs with
one or is canceled. Its `RacySpec` adds one action, `Overtaken`: a continuation
that takes the value and whose `then` began before the outcome and has not come to
the task's list (`adding[c] = "early"`) may be run although the outcome is an
exception. `EventTask` implements `RacySpec` (`KeepsRacyPromise`) and not `Spec`
(`KeepsPromise`, see Findings), so this race is all that is wrong.

### Parallel

A call of `parallel_for`, `parallel_reduce` or `parallel_invoke` over a range is
a task, and every part of the range that is split off is another, a `local_task`
in its parent's frame. A task's function is all of its recursive calls together:
`Fork` while the partitioner splits (the part that is split off becomes a task
that any worker can begin), `Work` on what is left, then `Join` and `Destroy` of
each subtask, the last one first, and `Finish`, which makes the result or the
exception visible; `Release` is the scheduler's last access. `Split` has the
three ways of splitting: `static_partitioner`, `auto_partitioner` with its
threads shared out and its reaction to being stolen, and `parallel_invoke`'s
halves. `stack[w]` holds the tasks whose functions worker `w` is in: a worker
that waits in `Join` or `Destroy` begins other tasks on top (`Idle`).

The result of a reduction is the sequence of what has gone into it, with `Start`
for each use of the initial value. One item may throw; an exception skips the
joins, but the destructors of the subtasks wait all the same. `scenario.early`
allows what `pool_early_wait` shows of the pool, that a wait returns before its
task has finished; then `Join` has no result. The queues and sleeping of the
scheduler are left to `ThreadPool`: here any worker that is free begins any
queued task.

### When

The registrar (`reg`) goes through the inputs; for `when_any` it puts a copy of
the task into the result (`Fill`) before it adds the continuation (`Then`).
`then` may throw (`ThenThrows`), and the handler removes the references of the
inputs that are left (`Catch`). These are none at the last input, where the code
calls `remove_ref(0)` all the same, perhaps on a state that is gone: the freed
memory may still have the count of 0, and the state is deleted again, or something
else, and nothing happens. `deletions` counts how often the state has been deleted. Continuation `i` runs in the thread that finishes
input `i`, or at once in the registrar if the input has finished (`runner`):
`Keep` for `when_all`; `MoveOut` and `Set` for `when_any`; then `DropRef`, since
the function holds a reference. `Delete` is what happens with the last one:
`when_all`'s destructor sets the event. `temp[i]` is the result on its way from
the shared state into the event, so that continuations can come between the two
accesses. The result is a tuple; in the overload for ranges it is a vector, which
is empty when it has been moved out, and `Fill` then writes behind its end.

### Program

`Parallel` and `When` together: input `k` of `when_all` or `when_any` is the task
of call `k`. The main thread registers while the workers run the calls.
`FinishCall` is the step of a worker at which a call's task finishes and its
continuation, if it has been added, begins; the worker runs it (`ContinueBy`)
before it lets the task go (`ReleaseCall`), with everything that it waits for
below on its stack.

### Rasterizer

`StartY`, `EndY` and the `DrawLine` steps for one disk, in exact arithmetic with
`TileSize` units per tile; comparing squares takes the place of the square root. The
inputs are multiples of a quarter tile: sums and halves of them are exact as
floats too, and where a root is irrational it is far from any integer compared
to the precision of a float. The root of a negative number is a NaN, which the
x86 converts to the least `int`, so the clipped line is empty.

### BasicPool, Containers

`Alloc` and `Free` with the list through `m_marks`. `holders` and `overdrawn`
are additions that the properties need: who has what, and whether anybody has
ever asked for more than there is. `Free` is called with pointers that `Alloc`
returned. `Containers` puts the pool and the FIFO queue side by side, which are
independent.

### The algebra

`Rational` has floats as exact fractions, with a NaN for what has no such value
and its way of spreading and of making comparisons false. `Sse` has the
instructions as functions of four lanes, and lane selections as the immediate
bytes of the source. `EasyVector`, `EasyQuat` and `EasyMatrix` translate the
overloads of the headers one by one (but for the `_Float3` overload of
`Easy_vector_transform`, which returns nothing, see Findings): loops over arrays as functions of indices,
SSE code instruction by instruction where the order of lanes matters. Products
that write into an argument have memory as a record of arrays with names, so
that an output can be an input. A rotation takes sine and cosine of its half
angle, since the tables of `EasyAngle` are not modelled. `Projection` has cameras,
projections, frames and tangents, and the rasterizer's `DrawLight` up to
`Rasterize`.

`Transforms` is a caller. Its state is one matrix worked on by the scalar
overloads (`mat`), one by the SSE overloads (`sse`), a quaternion (`quat`), and the
list of motions that were asked for (`calls`). Each action is a call; `Move` says what the
motion does to a point, as geometry and not by matrices.

## Runs

| Run | Instance | What it shows |
|---|---|---|
| `pool` | 3 symmetric workers, root with two subtasks, one of which has one | `WaitersOnce`, `NoWorkLeftBehind`, `LocalTasksOutlived`, `NotifiedAfterExit`: each of the three workers can be busy, stealing or asleep while the others are; waits nest two deep; the destructor's wait can end at any time |
| `workers` | `ThreadPool`: 2 workers, 2 roots with a subtask each | `TasksFinish`, of what the main thread waits for: every worker can run into a wait on top of another root's, and both can sleep. The destructor returns without a wake-up that nobody sent |
| `workers` | `WorkStealQueue`: 2 thieves, 1 slot at first, 4-bit indices from 14, 4 pushes | `IsTaskDeque`: the queue implements `TaskDeque`, through two grows and the wrap-around, with delayed stores. `EmptyPopMeansEmpty`, and `OperationsReturn` under fairness |
| `structures` | `LightMap`: 2 tiles, 1 slot, 3 lights | `SlotsExclusive`, `JoinedLists`, `ListInv`, `ListedStays`: two additions to a tile can be in their rollback at once while a third comes and goes. `BuildInBounds`, `TexturesMatchLists`: lists that are empty, full and overfull, buffers reused by smaller and replaced by larger frames. `FrameCompletes`: every frame that was cleared is rendered |
| `structures` | `Rasterizer`: 6x4 tiles, quarter tiles, radii to 3.5 tiles | `Covered`: lights of 5/4 tiles or more are in every tile they overlap. `Tight`: no light in a tile that is 5/4 tiles away or more |
| `structures` | `EventTask`: 2 finishing threads and the destructor, 3 continuations of which one takes the task | `KeepsRacyPromise`: one outcome, each continuation handled once, after it and as it requires, unless the outcome overtakes its `then`. `FreedUnused`: the last reference goes when everybody is through. `IsFreed`: once anybody begins to finish the event, all continuations are handled and the cycle of references between task and continuations is undone |
| `structures` | `Containers`: pool of 4 elements; queue of 4 slots at first, 14 pushes | `Exclusive`, `NextIsFree`: any order of taking and giving back, up to and including the last element. `InOrder`: across wrap-around and the resizes (4 to 8 to 16) that work |
| `pool_early_wait`, `pool_freed` | 2 workers, a chain of three tasks | violated, see Findings |
| `event_task_overtaken` | 1 finishing thread and the destructor, 1 continuation that takes the value | violated, see Findings |
| `program` | 2 workers and the main thread; calls on four items and on one; each way of splitting, without an exception, with one in a part that is split off, and with early waits as well; both `when_all` and `when_any` | `EachItemOnce`, `Outcome`: results and exceptions, whoever steals what. `FramesOutlive`: no subtask outlives the frame it is in, though its parent throws or its wait is early. `ChunksBounded`: how far `auto_partitioner` splits. `DeletedWithLastRef`, `CombinedResult`: the shared state, with a registration that fails at any input and inputs that finish at any time. `Returns`: all of it comes to an end |
| `when_throws`, `when_tasks` | `When` by itself, 2 inputs | violated, see Findings |
| `raster_rows` | 6x4 tiles, radius 1 | violated, see Findings |
| `fifo_resize` | `FifoQueue` as in `structures` | violated, see Findings |
| `algebra` | up to 3 calls in a row, from the identity or one of 6 cameras and frames | `CallsGiveMatrix`: order and sense of all motions, inverses and transposes. `OverloadsAgree`: SSE and scalar code give the same numbers, also with outputs on top of inputs. `QuaternionKeepsUp`, `JointTurnsBack`: matrix to quaternion and back by all four branches; joints. `LooksAtTarget`: cameras and frames, straight up and down included for cameras and `Easy_PosTo`. `TangentsFollow`, `WindowCoordinates`: tangents, and the two ways to the window |

`structures` and `algebra` check the type invariants of `LightMap` and `Transforms`
too; the other modules state theirs as documentation, and for the proofs.

Bounds. Lights, slots and tiles: `LightMap`'s items are alike and its tiles
independent except for `count` and the packing, for which two tiles and lists
that are full or not make all cases; the theorems remove these bounds. The theorems on the pool, `event_task`, parallel calls, the
rasterizer and the queues remove theirs likewise (see Proofs). `Width` and `Bits`, the lengths of an index of the deque and of the FIFO queue, are
small (4 and 8) so that wrap-around is reached; they must exceed the longest array. `MaxPushes` bounds the history of the queues: 4 pushes
into a deque that starts with one slot make it grow to two and to four, before and
after the wrap-around, while thieves read any of the three arrays. Fourteen pushes
bring the FIFO queue to its third array.
Three workers are the least at which a sleeping, a stealing and a signalling
worker differ; task trees of depth three are the least with a wait inside a
wait. Three continuations are the least that use the inline pointer, the switch
to the vector and the mutex; two setters are the least that race.
In `program` a call on four items is the least that `auto_partitioner` splits
twice with two hardware threads (`Hardware`) and in which a part that was split
off splits again; the single item finishes early or late relative to all of
that. `Grain`, the static partitioner's grain size, is 2, so that parts of one
item and parts of two occur. Two inputs have a first and a last one, which is
all that the registration and the race of `when_any` distinguish; the theorems
remove that bound.
In `algebra`, `MaxCalls` = 3 motions in a row are enough for any two motions to
come on both sides of an inversion. Axes, quaternions and cameras are chosen so
that lengths are rational. `MaxDenominator` = 65 bounds the numbers that calls go
on from: the denominators of the chosen rotations are small, and products of
unlike ones go up to it. `WindowCoordinates` also checks `Invertible` in every
state, which is what the theorems on the algebra suppose. The
last column of every matrix is 0 0 0 1, as the library's callers have it.
In `Rasterizer` the offsets of centre and radius run through all fractions a
quarter tile can make, inside the map and outside of each edge.

Symmetry is used in `pool` only, for safety properties, over workers, which the
code treats alike; runs with liveness properties have none.

Deadlock is checked in all runs except four kinds. In `fifo_resize` an overrun ends
the program (`structures` stutters there); `program` ends when all calls have
returned (`Returns` says that it gets there, so that a deadlock would be found);
`algebra` stops at its bounds; the runs of `When` alone end when the registrar has
returned and the inputs have finished. A pool that is freed, and a rasterized light,
stutter explicitly.

## Fairness

- `LightMap`: weak fairness of the rendering thread within a frame and of every
  item. Items are tasks of the pool; the operating system runs its threads, and
  no step of an item waits for another. `Clear` is not fair: nobody must begin a
  frame.
- `WorkStealQueue`: weak fairness of the continuation of an operation that was
  called, of every thread and of the store buffer. Nobody must call one. The
  loop in `steal` ends because a failed compare-exchange means that another
  thread took a task, and there are finitely many.
- `ThreadPool`: weak fairness of each worker and of the main thread. A thread
  that can take a step for ever takes one. No fairness of the mutex is assumed,
  and none of spurious wake-ups: the main thread need not leave the destructor's
  wait before it has been notified.

- `EventTask`: weak fairness of each thread, of the owner, who destroys the
  event in the end, and of each continuation that was scheduled. Weak fairness
  is enough for the mutex, since it is taken a bounded number of times.

- `Program`: weak fairness of the main thread and of each worker. A worker waits
  only for a task that another has begun, or begins it itself; nothing is
  assumed of the order in which queued tasks are begun.

## Proofs

About `LightMap` (any number of tiles, slots and lights) `TileProofs` proves

- `Inductive`: `Spec => [](TypeOK /\ ListInv)`;
- `TypeCorrect`, `SlotsAreExclusive`, `ListsAfterJoin`, `ListedLightsStay`: the
  properties `TypeOK`, `SlotsExclusive`, `JoinedLists`, `ListedStays`;
- `PackedInOrder`: `Spec => []PackInv`; `PackedInside` and `TexturesAreLists`: the
  properties `BuildInBounds`, `TexturesMatchLists`.

The only assumptions are those of `LightMap`: natural numbers, a finite set of
lights, junk that is not a light. `SlotsExclusive` alone is not inductive:
`m_pos` may be above the capacity while rejected additions have not been rolled
back, and only if it is known by how much can one say that a rollback never
frees a slot somebody owns. `ListInv` therefore has four parts. `ItemsInv`: who
is drawing, and on tiles of its light only. `OvershootInv`: with `Used(t)` as
`m_pos` less the pending rollbacks (`Rolling(t)`), `Used(t)` is within the
capacity, and equal to it while a rollback is pending. `OwnerInv`: a reserved
slot is below `Used(t)`, has one owner, and keeps its light. `ContentInv`: a used
slot that is written holds a light of this frame, each light once, and a light
that has finished with the tile has a slot or the list is full. Each part has a
lemma per step that can disturb it. The cardinality of `Rolling(t)` is what a
step of an item changes by one, and the lemmas on it come first.

The textures depend on `m_count`, which is kept apart from the lists. `PackInv`
says that the two agree at any time: there are prefix sums over the tiles, of the
slots that have been tallied (`Used(t)` less the items between their two
`fetch_add`s, `Pending(t)`), and the last one is `count`. A `Tally` on a tile
raises the sums behind it by one; nothing else changes them. When all have joined
they are the sums of the `m_pos`, and so where `BuildTile` puts the lists. The sums
are a witness of the invariant and not a recursive function, so that no induction
over the tiles is needed.

`ContainersProofs` (pools of any size) proves `FreeListIntact`, and from it
`NeverHeldTwice` (`Exclusive`) and `NextOneIsFree` (`NextIsFree`). The invariant
names the free list: there is a sequence of all elements that nobody holds, each
once, which starts at `m_free` and follows `m_marks`. It does not say where the
last element's link leads, and so does not depend on the slip in the
constructor; that is also why it ends when the pool is overdrawn.
`Alloc` takes
the head of the sequence, `Free` puts an element before it.

The other half of `ContainersProofs` (FIFO queues of any initial size) proves
`QueueIntact`, and from it `FirstInFirstOut` (`InOrder`). Assumed is that `Bits` bits
hold twice the number of pushes, so that a size does not overflow: a `std::size_t`
has at least 32. The invariant puts the length in place of `tail`, since the
remainder `(tail - head) % size` alone does not tell a full queue from an empty
one, and says that the slot before `head` is free.

`WorkStealQueueProofs` (any thieves, any sizes, indices that wrap around anywhere)
proves `QueueConsistent`, and from it `PopFindsTasks` (`EmptyPopMeansEmpty`) and
`QueueIsDeque` (`IsTaskDeque`, the refinement of `TaskDeque`). Assumed is what holds
of powers of two, that the first size divides the number of indices and the double
of a size does, and that `top` goes through less than half of all indices in a
behaviour; without the latter a thief that sleeps for so long could take the
old value of `top` for the new one.

`DequeInv` speaks of indices that do not wrap around: `T` is `top`, the tasks have
those from `T` to `h`, and thieves can see the ones below `c`. A store that is still
in the buffer has not moved `c`, so the invariant has for each number `k` of stores that
may have arrived what `bottom` and `array` in memory are then, `bot[k]` and `arr[k]`
(`BufInv`, with the kinds of stores in `Entry`); `View` says that memory and the owner
differ only where a store is pending. What makes a steal right is split over three
parts. `CopyInv`: every array that memory can name still has the tasks that can be
seen through it. `TopInMemory`, a lemma: no pending store is to the slot of `T`, in
any array, while a task is in sight, since a slot is stored to only if its index is less than
`T + size`. `ThiefInv`: a thief whose `t` is still `top` has a task in sight, and the
right one. For pop it is `OwnerInv`: while bottom is lowered (`h = bot[n] + 1`) a
thief can take at most the last task, and then `T = h`. Each step has a lemma that
names the new witnesses, and in the refinement `Content` is the sequence of the
tasks from `T` up to `c`: `Flush` pushes, the others take or leave it alone.
`DequeTyped` (`DequeTypeOK`) has an invariant besides, `ValueInv`: slots and the stores to
them hold tasks, and the pending stores of `array` get larger, so that a thief
never has an array larger than the one in memory.

About `When` (any number of inputs) `ProgramProofs` proves `WhenInvariant`, and from
it `StateDeletedWithLastRef` (`DeletedWithLastRef`) and `EventSetWithInputs`
(`CombinedResult`). The only assumption is that there is at least one input, for
without inputs the code makes no shared state. `DeletedWithLastRef` is inductive
only if it is known which inputs the registrar has been at (`RegInv`): a `then`
takes a reference that was there for its input, and the handler gives up those of
the inputs behind it, which are as many as it subtracts. `AllInv` says what
`when_all` has kept: when the last owner goes and no registration failed, every
continuation has been through, so every input has finished and is kept. `AnyInv`
says that the winner of `when_any` has finished, since only a continuation that runs
sets the event; what is in its list, `when_tasks` refutes. In `Catch`
the references that are left are those of the inputs behind the one that threw;
at the last one there may be none, and the theorem is that the count is right then
too, however often the state is deleted. There is a lemma for
each action; cardinalities change in `ThenThrows`, `Catch` and `DropRef` only.
The theorems are about `WhenSpec`, where inputs finish at any time, which
`Program` restricts.

`ThreadPoolProofs` (any number of workers, any tree of tasks) proves
`PoolConsistent`, and from it `ArrayLongEnough` (`WaitersOnce`), `NoneLeftBehind`
(`NoWorkLeftBehind`), `FramesOutliveTasks` (`LocalTasksOutlived`) and
`NotifiedByTheLast` (`NotifiedAfterExit`). Assumed are finitely many workers, at least
one, and that every task is created in one place: by one position of one parent,
or as one root. The invariant has a part for each thing that the code relies on
without saying so. `StackInv`: a frame that is not on top waits, and what is
below the first task is the main loop. `LockInv`: a worker that keeps the lock
has seen no public task. `WaitInv`: who sleeps is in the list, once; it needs
that a worker's own frames below cannot be in it as well. `IdleInv`: whoever
steals or goes to sleep has emptied its own queue, which nobody else fills, and
whoever has left has seen all queues empty after `shutdown`. With `WorkInv` this
gives `NoWorkLeftBehind`: a worker only lies down when the public queue is empty,
under the lock, and a `schedule` from outside that finds a waiter wakes it.
`QueueInv` and `FrameInv`: each task is in one queue or in one frame, as its
state says. `KidInv` says how far each task is with its subtasks, from which
`LocalTasksOutlived` follows: the subtasks behind the counter are released, and
those before it not begun. `EndInv` counts the workers that are left, so that none is
when the destructor has been notified. All of it holds with early waits and with a
destructor whose wait ends at any time, since the code allows both.

`EventTaskProofs` (any set of finishing threads, any finite set of
continuations) proves `Consistent`, and from it `Promised` (`KeepsRacyPromise`:
that `EventTask` implements `TaskPromise!RacySpec`, initial states and each step), `Freed`
(`FreedUnused`) and `NoContinuationLost`, which no run states: when all threads
have returned each continuation was scheduled, canceled or run. Assumed is that
finishers, continuations and the owner are different threads. `StoreInv` is the
heart of the invariant: a continuation is in the word or in the vector, and that
place will still be flushed, exactly if `try_add` has returned and nobody has
handled it. `AddInv` has what makes this survive: a thread in the mutex has seen
the flag of a vector that is not flushed yet, or is followed by the one who will
flush it. `ClaimInv`: one thread finishes, and its place tells the state and the
lock. `RefInv`: the count is the event's reference, one for each thread in
`then`, one for each function that has not been destroyed. `OwnerInv` is needed
for the destructor, which lets go of an unfinished task only if the count is one.

`ProgramProofs` (any workers, ranges, grain size, number of hardware threads,
inputs and scenarios) proves `CallsConsistent`, and from it `ItemsOnce`
(`EachItemOnce`), `OutcomesInOrder` (`Outcome`), `ChunksFollowSteals`
(`ChunksBounded`) and `FramesStay` (`FramesOutlive`). Assumed is that the calls' ranges
are nonempty and disjoint, which only names the items apart. `EachItemOnce` needs
nearly all of the invariant: that the parts of the tasks spawned cut the ranges
into pieces (`PartInv`, for which a lemma on each partitioner says that it cuts
within the part), that a task which has worked on its part has run it (`RunInv`),
and that when a call completes all of its tasks have been through, which is
induction on the tree of parents: the least item whose task is not gone has a
parent that starts before it (`KidInv`). `KeptInv` is what exceptions need: a
task that has thrown is gone only if one of its ancestors has thrown as well.
For the order of the results there is a second invariant (`OrderInv`), which
gives each task the last item of its range when it was split off: a task's
subtasks are a chain, each range ending where that of the one split off before
it begins, and what a task has put together is the result for the items from its
first to where its innermost subtask begins. Since the items of a finished range
are all processed, no task is spawned in it later, and the number of initial
values stays that of its parts.
`ChunksFollowSteals` (`ChunksBounded`) needs no sums: its invariant (`SeatInv`)
deals each call `Hardware - 1` seats, and as many to each task that is stolen.
A task has a seat of its own and spare ones for the `num` threads it may still
split off; it gives its kid the first, and a share of the others as
`split_auto` shares `num`. Counting the seats bounds the parts.
That a subtask's frame outlives it rests on `~local_task` and not on the join, so
the theorem includes early waits. `CombinedConsistent`, `DeletedInProgram`
(`DeletedWithLastRef`) and `CombinedInProgram` (`CombinedResult`) carry the
theorems about `When` over: each step of `Program` is one of `When` or leaves
its variables alone.

About `Rasterizer` (any map, any even unit, any disks) `TileProofs` proves `RowByRow`, which
says that `hit` is the lines of the rows drawn, and from it `TightDrawing`
(`Tight`), `CoveredOnWideMaps` (`Covered`) and `RowsInHighMaps` (`RowInMap`). The
first needs no assumption on the map. `Covered` is proved for `Height < Width`, as
on all maps of this program: since the width limits the rows, the last rows of
a map that is higher than wide are never drawn. Conversely `RowInMap`, which
`raster_rows` violates, is proved for `Width <= Height + 1`. The lemmas are about
the chord of a row, by squares: where the disk overlaps a tile the half-chord
that the code takes, at a distance half a tile off, is long enough if the radius
is 5/4 tiles, and it never reaches further than the disk grown by 5/4 tiles.

`TransformsProofs` (any vectors, rotations, quaternions, scale factors, cameras, frames
and points, any number of calls) proves `ObjectConsistent`, and from it `TypesAreKept`
(`TypeOK`), `QuaternionAlwaysKeepsUp` (`QuaternionKeepsUp`) and `JointsAlwaysTurnBack`
(`JointTurnsBack`), `TangentsAlwaysFollow` (`TangentsFollow`) and
`WindowCoordinatesAlways` (`WindowCoordinates`); `OverloadsAlwaysAgree`
(`OverloadsAgree`) has an invariant of its own, and so have
`CallsAlwaysGiveMatrix` (`CallsGiveMatrix`) and `LooksAlwaysAim` (`LooksAtTarget`)
in common. Assumed of the
constants is that they are numbers, that the lengths the code takes roots of are
exact (the model's numbers are fractions), that the half angles' sine and cosine
belong together, that no scale factor is zero, that axes and quaternions have a
length of zero or one that the code does not take for zero, and that views do not
look straight up or down, which `Easy_ViewTo` cannot do. Cameras and `Easy_PosTo`
may; that they come out without a NaN is part of `LooksAreFrames`. Triangles have
an area in their texture that `CreateTangent` does not take for nothing, and views
a near plane in front of the eye by more than `PointProject` takes for nothing.

All eight have the hypothesis `[]Invertible`: the product of the pivots is never one
that the double `Easy_matrix_inv` takes for zero (below 1/100000 in size,
`EasyMatrix.h:1462`). Without it they are false: the scalar
inverse then stops in the middle of its elimination, where the SSE inverse goes on.

The invariant has three parts. `Kept`: both matrices are the same numbers, with the
last column 0 0 0 1. `Recorded`: each motion in `calls` is one that a caller can
ask for, which bounds what `Move` and `Undone` have to deal with. `Placed`: while
every motion is a move or a turn, `quat` is of length one and the rows of `mat` are
those of its rotation. For that `RotateQuat` needs `ProductTurns`, and `Invert` and
`Transpose`, which read `quat` off the new matrix, need `QuaternionReadOff`: each of
the four branches takes the root of four times the square of its component, which
is exact, and the other three come from that one. `Gives`, for `CallsGiveMatrix`,
says of *every* point what the property says of the probes, because an inverse
takes a probe to where no probe is; `Invert` and `Transpose` follow from
`UndoneMotionsLeadBack`, by induction on how many motions have been taken back. What
a turn does to a point is stated as geometry with the axis as it was asked for;
`TurnsAsQuaternion` is Rodrigues' formula.

`TangentsFollow` comes from how a direction goes through a matrix (`Along`):
differences, multiples and quotients go through it as they are, and, since the rows
are at right angles and of length one, so do dot products and with them lengths;
hence normalising and taking away the part along the normal may be done before or
after. `WindowCoordinates` describes each projection by what it does to the planes
of its volume (`Frustum`, `BoxFits`); a corner that the inverse puts back arrives
in eye space where it was, and its window coordinates are then those of its planes.
`LooksAtTarget` needs the sense of the axes (`Handed`), which a rotation keeps
(`HandedProduct`), and their lengths along the line of sight. That the matrix still
is the one of the look, after pairs of inversions, follows from `Gives`: matrices
that take every point to the same place are the same (`SameMatrix`). A frame points
where it was asked to except near straight up and down, where `Easy_PosTo` takes the
vertical axis for a direction less than 1/100000 from it, by squares.

Below that, in `AlgebraProofs`, are the numbers, vectors, matrices and quaternions
by themselves. `gcd` and the search for a root are recursive
functions, and what they compute (`GcdIsGcd`, `SqrtSquares`) is shown by taking the
least argument for which it fails; no induction rule is instantiated. An operation
on fractions is then one on integers over a common denominator (`Is(r, n, d)`), so
that identities between rotations become identities between polynomials, which the
prover can settle. `ProductInPlace` and `ProductInPlaceSse` go through the loops over
rows with memory as it is after each row, outputs on top of inputs included.
`InversesAgree` follows the elimination with its swaps of rows, and the cofactors
that the SSE code shuffles, down to the one inverse that a matrix has.

TLC checks `ListInv` in `structures` too; the other inductive invariants were found
with its help on the instances of the runs. Every invariant of every passing run
is the statement of a theorem; only model-checked is all liveness: no prover here
handles fairness.

## Findings

Runs that end in a violation; each is a disagreement of the code with its own
comments or assertions.

- `fifo_resize`: a full FIFO queue that does not start at slot 0 is copied with
  a count of `tail - head`, which is negative, as a `size_t`: the copy runs past
  the new array (`fifo_queue.h:50`). It takes a push onto 31 queued tasks after
  one that was popped.
- `pool_early_wait`: `task_wait_event::wait` returns `result != 0`, that is
  always `task_finished`, where "the event(s) that occurred" are promised
  (`task_wait_event.h:44`, `:53`). A worker that waits for a subtask and is woken
  because another task is available stops waiting. `LocalTasksOutlived` holds
  nevertheless, because `~local_task` spins until the subtask is released; but
  the result is read, or an exception looked for, before that.
- `raster_rows`: the last row is limited by the width of the map instead of its
  height (`STLLRasterizer.cpp:125`), against `assert(y < m_height)`
  (`STLLRasterizer.h:81`).
- `pool_freed`: `FreedAfterExit` ("Wait for the threads to exit",
  `threadpool_scheduler.cpp:253`) fails because the destructor's wait has no
  predicate and no loop (`:255`): a spurious wake-up frees the pool that detached
  workers use. `NotifiedAfterExit` is what the notification itself guarantees.
- `event_task_overtaken`: `add_continuation` reads the state, fails to add the
  continuation because the task is canceled meanwhile, and then goes by the state it
  read (`task_base.h:140`, `:152`): a continuation that takes the value is run without
  one, where `set_exception` is to "cancel continuations" (`task.h:216`).
- `when_throws`: when `then` throws for the last input, the handlers of `when_all` and
  `when_any` ("Make sure we don't leak memory if then() throws") call `remove_ref(0)`
  (`when_all_any.h:132`, `:159`, `:193`, `:230`). The reference of the function that was
  not added may have been the last, and then the count of a deleted state is read; if
  the freed memory holds 0, it is deleted again (`ref_count.h:52`).
- `when_tasks`: `when_any` goes on filling in the result after the continuation of an
  earlier input may have moved it out (`when_all_any.h:98`), so that `tasks` is not the
  "List of tasks that were passed in" (`:33`). The version for ranges then assigns
  behind the end of an empty vector (`:224`).
  Besides, of two inputs that finish together one may move the list out and the other
  set the event, with its index (`:30`) and an empty list. `CombinedResult` says what
  is left of the promise: the winner has finished.

Others met on the way that no run here is devoted to:

- `scheduler_fwd.h:162` says that tasks which have not been started are dropped
  when the pool is destroyed. In the code, and in `ThreadPool`, they are run: a
  worker looks at the shutdown flag (`threadpool_scheduler.cpp:133`) after it has
  found every queue empty (`:125`). `TasksFinish` is therefore about tasks that the
  main thread waits for, and `NoWorkLeftBehind` and `NotifiedAfterExit` hold either way.
- The constructor of `BasicPool` links the last element to 0 (`EasyMath.cpp:60`), so
  that of a pool with "count: max object count" (`EasyPool.h:13`) one object more is
  handed out, element 0 a second time, where `Alloc` should return NULL. If element 0
  is given back after that, the elements behind it are lost. `BasicPool` does the same;
  `Exclusive` and `NextIsFree` are about pools of which that was never asked, and
  promise nothing after it.
- `parallel_reduce` begins every part with the initial value, so that the value is
  combined once for each part (`parallel_reduce.h:46`), and how many there are
  depends on the partitioner.
- Near the row of the centre the distance to the row is negative
  (`STLLRasterizer.cpp:133`), and lights of less than 5/4 tiles are left out of
  tiles that they light; `Covered` is for larger ones.
- `DrawLight` refuses depths outside 0 to 1 (`STLLRasterizer.cpp:170`), where
  `EastPerspective` yields -1 to 1.
- The overloads of `Easy_matrix_camera` disagree: without roll, the position is
  added after the axes have been set up (`EasyMatrix.h:1606`), with roll it is
  taken away before.
- Normalizing a zero vector gives NaN (`EasyVector.h:421`), and so do `Easy_ViewTo`
  straight up or down (`EasyMatrix.h:1974`), while the camera and `Easy_PosTo`
  treat these directions on their own. The inverse of a singular matrix is returned
  half-reduced (`EasyMatrix.h:1462`).
- The `_Float3` overload of `Easy_vector_transform` takes its result by value
  (`EasyVector.h:529`), so that the caller sees nothing of it. `QuatSlerp` keeps its
  locals in static variables, which calls from several threads share.

## Not modelled

- `MainWindow`: window messages, drawing, ray tracing, the deferred pass.
- Sine tables (`EasyAngle`), `QuatSlerp`, `Easy_quat_Mix`, `Easy_GetAngle`, and
  rounding: what they compute is not rational. The element-wise additions, copies
  between layouts and the test function of `EasyMatrix` say nothing that a property
  could be about.
- The singleton of the default scheduler: whether its check is safe depends on how
  a compiler constructs function statics, which the source does not determine. The
  program asks from its main thread first.
- The library interface: three functions that allocate, call `Render` and free;
  `LightMap` has the frame that they drive. What a caller does with its pointers
  into the textures is not in the source.
- `CTAList`, `EasyArray`, traits: not used by the parts above, or compile-time.
  `StackPool`: an offset that grows on one thread's stack.
- Of tasks: unwrapping, continuations that throw, move assignment of
  `event_task`, schedulers that throw. The program uses `parallel_for` only.
- Thread creation that fails, allocation that fails, memory models weaker than
  x86.

## Plan

What is left, in this order:

1. `EventTask`, extended by unwrapping and by the move assignment of `event_task`
   (`task.h:174`, `task_base.h:114`).
2. The FIFO queue and the task deques inside `ThreadPool` instead of sequences, for
   one worker.

Where questions share an instance their properties share a run, as in
`structures`, `workers` and `program`.
