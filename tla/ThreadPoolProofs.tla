-------------------------- MODULE ThreadPoolProofs --------------------------
(***************************************************************************)
(* Theorems about ThreadPool, for any number of workers and any tree of    *)
(* tasks: the waiters array is long enough, no queued task is slept on, a  *)
(* local_task is outlived by the frame that it lives in, and the pool is   *)
(* freed when all is done.                                                 *)
(***************************************************************************)
EXTENDS ThreadPool, FiniteSetTheorems, SequenceTheorems, TLAPS

-----------------------------------------------------------------------------
(* The invariant.                                                           *)

LoopPcs == {"check", "pop", "steal", "on_finish", "enlist", "wait", "delist"}
TaskPcs == {"spawn", "peek", "wake", "get", "result", "unique", "finish", "lock", "flush"}
MainPcs == {"schedule", "wait", "sleep", "unique", "destroy", "join", "freed"}
FrameType ==
    [kind : {"loop", "task"}, pc : LoopPcs \cup TaskPcs, task : Tasks \cup {None},
     n : Int, added : BOOLEAN, victims : SUBSET Workers]

\* Frame f is the i-th from the bottom of w's stack.
Depth(w) == Len(stack[w])
FrameAt(w, i, f) == i \in 1 .. Depth(w) /\ stack[w][i] = f
Runs(w, i, f) == FrameAt(w, i, f) /\ f.kind = "task"
InLoop(w) == Active(w) /\ Top(w).kind = "loop"
InWaiters(w) == w \in ToSet(waiters)

Types ==
    /\ stack \in [Workers -> Seq(FrameType)]
    /\ main \in [pc : MainPcs, n : Nat]
    /\ queue \in [Workers -> Seq(Tasks)]
    /\ public \in Seq(Tasks)
    /\ lock \in Workers \cup {None}
    /\ waiters \in Seq(Workers)
    /\ shutdown \in BOOLEAN
    /\ left \in Int
    /\ joined \in BOOLEAN
    /\ event \in [Threads -> SUBSET {"finished", "available"}]
    /\ state \in [Tasks -> {"new", "queued", "running", "completed", "released"}]
    /\ locked \in [Tasks -> BOOLEAN]
    /\ conts \in [Tasks -> Seq(Threads)]

\* The shape of the call stacks: the main loop, and on it frames that wait.
FrameFits(f) ==
    /\ f.kind = "loop" => f.pc \in LoopPcs
    /\ f.kind = "task" => f.pc \in TaskPcs
    /\ f.pc = "on_finish" => f.task # None

StackInv ==
    \A w \in Workers, i \in Nat, f \in FrameType : FrameAt(w, i, f) =>
       /\ FrameFits(f)
       /\ i = 1 => f.kind = "loop" /\ f.task = None
       /\ i # 1 => f.task # None
       /\ i # Depth(w) => f.pc \in {"check", "result", "unique"}

\* The lock is held across steps by a worker that has seen no public task.
LockInv ==
    /\ \A w \in Workers : At(w, "loop", "on_finish") \/ At(w, "loop", "enlist") => lock = w
    /\ lock # None => public = <<>>

\* A worker that sleeps is in the list, once.
WaitInv ==
    /\ IsInjective(waiters)
    /\ \A w \in Workers : InWaiters(w) => At(w, "loop", "wait") \/ At(w, "loop", "delist")
    /\ \A w \in Workers : Asleep(w) => InWaiters(w)

\* Whoever looks into the other queues has emptied its own; whoever has left has
\* seen that nothing is to be done.
IdleInv ==
    \A w \in Workers :
       /\ InLoop(w) /\ Top(w).pc \notin {"check", "pop"} => queue[w] = <<>>
       /\ ~ Active(w) => queue[w] = <<>> /\ public = <<>> /\ shutdown

WorkInv == public # <<>> => \E w \in Workers : Active(w) /\ ~ Asleep(w)

\* The end.
Present == {w \in Workers : Active(w)}

EndInv ==
    /\ shutdown <=> main.pc \in {"join", "freed"}
    /\ shutdown => left = Cardinality(Present)
    /\ joined => Present = {}

\* A task is in one place.
QueueInv ==
    /\ \A w \in Workers : IsInjective(queue[w])
    /\ \A v, w \in Workers : \A t \in Tasks :
          t \in ToSet(queue[v]) /\ t \in ToSet(queue[w]) => v = w
    /\ IsInjective(public)
    /\ \A w \in Workers : \A t \in Tasks : t \in ToSet(queue[w]) => t \notin ToSet(public)
    /\ \A w \in Workers : \A t \in Tasks : t \in ToSet(queue[w]) => state[t] = "queued"
    /\ \A t \in Tasks : t \in ToSet(public) => state[t] = "queued"
    /\ \A t \in Tasks : state[t] = "queued" =>
          t \in ToSet(public) \/ \E w \in Workers : t \in ToSet(queue[w])

FrameInv ==
    /\ \A v, w \in Workers : \A i, j \in Nat : \A f, g \in FrameType :
          Runs(v, i, f) /\ Runs(w, j, g) /\ f.task = g.task => v = w /\ i = j
    /\ \A w \in Workers, i \in Nat, f \in FrameType : Runs(w, i, f) =>
          state[f.task] = IF f.pc \in {"lock", "flush"} THEN "completed" ELSE "running"
    /\ \A t \in Tasks : state[t] \in {"running", "completed"} =>
          \E w \in Workers, i \in Nat, f \in FrameType : Runs(w, i, f) /\ f.task = t

\* How far a task is, and in which state that leaves its subtasks.
Fresh(t, n) == \A k \in DOMAIN Kids[t] : k >= n => state[Kids[t][k]] = "new"
Done(t, n) == \A k \in DOMAIN Kids[t] : k > n => state[Kids[t][k]] = "released"

Progress(f) ==
    /\ f.pc = "spawn" => f.n \in 1 .. Len(Kids[f.task]) + 1 /\ Fresh(f.task, f.n)
    /\ f.pc \in {"peek", "wake"} => f.n \in 1 .. Len(Kids[f.task]) /\ Fresh(f.task, f.n + 1)
    /\ f.pc \in {"get", "result", "unique"} => f.n \in 0 .. Len(Kids[f.task]) /\ Done(f.task, f.n)
    /\ f.pc \in {"result", "unique"} => f.n # 0
    /\ f.pc \in {"finish", "lock", "flush"} => f.n = 0 /\ Done(f.task, 0)

KidInv ==
    /\ \A w \in Workers, i \in Nat, f \in FrameType : Runs(w, i, f) => Progress(f)
    /\ \A t \in Tasks : state[t] \in {"new", "queued"} => Fresh(t, 1)
    /\ \A t \in Tasks : state[t] = "released" => Done(t, 0)

\* Which root the main thread is at.
MainInv ==
    /\ main.pc = "schedule" =>
          /\ main.n \in 1 .. Len(Roots) + 1
          /\ \A i \in DOMAIN Roots : i >= main.n => state[Roots[i]] = "new"
    /\ main.pc = "wait" => main.n \in 0 .. Len(Roots)
    /\ main.pc \in {"sleep", "unique"} => main.n \in 1 .. Len(Roots)

PoolInv ==
    /\ Types /\ StackInv
    /\ LockInv /\ WaitInv /\ IdleInv /\ WorkInv /\ EndInv
    /\ QueueInv /\ FrameInv /\ KidInv /\ MainInv

-----------------------------------------------------------------------------
(* Sequences.                                                               *)

LEMMA AppendFacts ==
    ASSUME NEW S, NEW s \in Seq(S), NEW e \in S
    PROVE  /\ Append(s, e) \in Seq(S) /\ Len(Append(s, e)) = Len(s) + 1
           /\ Append(s, e)[Len(s) + 1] = e /\ \A i \in 1 .. Len(s) : Append(s, e)[i] = s[i]
           /\ Last(Append(s, e)) = e /\ Append(s, e) # <<>>
           /\ ToSet(Append(s, e)) = ToSet(s) \cup {e}
           /\ IsInjective(s) /\ e \notin ToSet(s) => IsInjective(Append(s, e))
<1>1. /\ Append(s, e) \in Seq(S) /\ Append(s, e) # <<>>
      /\ Len(Append(s, e)) = Len(s) + 1 /\ \A i \in 1 .. Len(s) : Append(s, e)[i] = s[i]
      /\ Append(s, e)[Len(s) + 1] = e /\ Len(s) \in Nat
      /\ DOMAIN s = 1 .. Len(s) /\ DOMAIN Append(s, e) = 1 .. Len(s) + 1
  BY AppendProperties, LenProperties
<1>2. /\ \A i \in 1 .. Len(s) + 1 : i \in 1 .. Len(s) \/ i = Len(s) + 1
      /\ \A i \in 1 .. Len(s) : i \in 1 .. Len(s) + 1
      /\ Len(s) + 1 \in 1 .. Len(s) + 1
  BY <1>1
<1>3. ToSet(Append(s, e)) = ToSet(s) \cup {e}
  BY <1>1, <1>2 DEF ToSet
<1> QED
  BY <1>1, <1>2, <1>3 DEF ToSet, IsInjective, Last

LEMMA FrontFacts ==
    ASSUME NEW S, NEW s \in Seq(S), s # <<>>
    PROVE  /\ Len(s) \in Nat \ {0} /\ Last(s) = s[Len(s)] /\ Last(s) \in S
           /\ Front(s) \in Seq(S) /\ Len(Front(s)) = Len(s) - 1
           /\ \A i \in 1 .. Len(s) - 1 : Front(s)[i] = s[i]
           /\ Last(s) \in ToSet(s) /\ ToSet(s) = ToSet(Front(s)) \cup {Last(s)}
           /\ IsInjective(s) => IsInjective(Front(s)) /\ Last(s) \notin ToSet(Front(s))
<1>1. Len(s) \in Nat \ {0} /\ DOMAIN s = 1 .. Len(s) /\ \A i \in 1 .. Len(s) : s[i] \in S
  BY EmptySeq, LenProperties, ElementOfSeq
<1>2. /\ Front(s) \in Seq(S) /\ Len(Front(s)) = Len(s) - 1
      /\ \A i \in 1 .. Len(s) - 1 : Front(s)[i] = s[i]
  BY <1>1, SubSeqProperties DEF Front
<1>3. DOMAIN Front(s) = 1 .. Len(s) - 1
  BY <1>2, LenProperties
<1>4. /\ \A i \in 1 .. Len(s) : i \in 1 .. Len(s) - 1 \/ i = Len(s)
      /\ \A i \in 1 .. Len(s) - 1 : i \in 1 .. Len(s) /\ i # Len(s)
      /\ Len(s) \in 1 .. Len(s)
  <2>1. Len(s) \in Nat \ {0}
    BY <1>1
  <2> QED
    BY <2>1
<1>5. ToSet(s) = ToSet(Front(s)) \cup {Last(s)}
  BY <1>1, <1>2, <1>3, <1>4 DEF ToSet, Last
<1>6. IsInjective(s) => IsInjective(Front(s)) /\ Last(s) \notin ToSet(Front(s))
  BY <1>1, <1>2, <1>3, <1>4 DEF ToSet, IsInjective, Last
<1> QED
  BY <1>1, <1>2, <1>4, <1>5, <1>6 DEF Last, ToSet

LEMMA TailFacts ==
    ASSUME NEW S, NEW s \in Seq(S), s # <<>>
    PROVE  /\ Head(s) \in S /\ Tail(s) \in Seq(S)
           /\ Head(s) \in ToSet(s) /\ ToSet(s) = ToSet(Tail(s)) \cup {Head(s)}
           /\ IsInjective(s) => IsInjective(Tail(s)) /\ Head(s) \notin ToSet(Tail(s))
<1>1. Len(s) \in Nat \ {0} /\ DOMAIN s = 1 .. Len(s) /\ \A i \in 1 .. Len(s) : s[i] \in S
  BY EmptySeq, LenProperties, ElementOfSeq
<1>2. /\ Head(s) = s[1] /\ Tail(s) \in Seq(S) /\ Len(Tail(s)) = Len(s) - 1
      /\ \A i \in 1 .. Len(s) - 1 : Tail(s)[i] = s[i + 1]
  BY <1>1, HeadTailProperties
<1>3. DOMAIN Tail(s) = 1 .. Len(s) - 1
  BY <1>2, LenProperties
<1>4. /\ \A i \in 1 .. Len(s) : i = 1 \/ (i - 1 \in 1 .. Len(s) - 1 /\ i = (i - 1) + 1)
      /\ \A i \in 1 .. Len(s) - 1 : i + 1 \in 1 .. Len(s) /\ i + 1 # 1
      /\ \A i, j \in 1 .. Len(s) - 1 : i + 1 = j + 1 => i = j
      /\ 1 \in 1 .. Len(s)
  <2>1. Len(s) \in Nat \ {0}
    BY <1>1
  <2> QED
    BY <2>1
<1>5. ToSet(s) = ToSet(Tail(s)) \cup {Head(s)}
  <2>1. \A i \in 1 .. Len(s) : s[i] = Head(s) \/ \E j \in 1 .. Len(s) - 1 : s[i] = Tail(s)[j]
    BY <1>2, <1>4
  <2>2. \A j \in 1 .. Len(s) - 1 : \E i \in 1 .. Len(s) : Tail(s)[j] = s[i]
    BY <1>2, <1>4
  <2>3. /\ ToSet(s) = {s[i] : i \in 1 .. Len(s)}
        /\ ToSet(Tail(s)) = {Tail(s)[i] : i \in 1 .. Len(s) - 1}
    BY <1>1, <1>3 DEF ToSet
  <2>4. Head(s) \in ToSet(s)
    BY <1>2, <1>4, <2>3
  <2>5. ToSet(s) \subseteq ToSet(Tail(s)) \cup {Head(s)}
    BY <2>1, <2>3
  <2>6. ToSet(Tail(s)) \subseteq ToSet(s)
    BY <2>2, <2>3
  <2> QED
    BY <2>4, <2>5, <2>6
<1>6. IsInjective(s) => IsInjective(Tail(s)) /\ Head(s) \notin ToSet(Tail(s))
  BY <1>1, <1>2, <1>3, <1>4 DEF ToSet, IsInjective
<1> QED
  BY <1>1, <1>2, <1>4, <1>5, <1>6 DEF ToSet

-----------------------------------------------------------------------------
(* What a call, a return and a step in a function do to the stack.          *)

Others(w) == \A v \in Workers : v # w => stack'[v] = stack[v]

LEMMA GotoFacts ==
    ASSUME stack \in [Workers -> Seq(FrameType)], NEW w \in Workers, Active(w),
           NEW f \in FrameType, Goto(w, f)
    PROVE  /\ stack' \in [Workers -> Seq(FrameType)] /\ Others(w)
           /\ Depth(w) \in Nat \ {0} /\ Top(w) = stack[w][Depth(w)] /\ Top(w) \in FrameType
           /\ Depth(w)' = Depth(w) /\ Active(w)'
           /\ Top(w)' = f /\ stack'[w][Depth(w)] = f
           /\ \A i \in 1 .. Depth(w) - 1 : stack'[w][i] = stack[w][i]
<1>1. stack[w] \in Seq(FrameType) /\ stack[w] # <<>>
  BY DEF Active
<1>2. stack'[w] = Append(Front(stack[w]), f) /\ Others(w)
  BY DEF Goto, Others
<1> DEFINE rest == Front(stack[w])
<1>3. /\ Depth(w) \in Nat \ {0} /\ Top(w) = stack[w][Depth(w)] /\ Top(w) \in FrameType
      /\ rest \in Seq(FrameType) /\ Len(rest) = Depth(w) - 1
      /\ \A i \in 1 .. Depth(w) - 1 : rest[i] = stack[w][i]
  BY <1>1, FrontFacts DEF Depth, Top
<1> HIDE DEF rest
<1>4. /\ stack'[w] \in Seq(FrameType) /\ Len(stack'[w]) = Len(rest) + 1
      /\ stack'[w][Len(rest) + 1] = f /\ \A i \in 1 .. Len(rest) : stack'[w][i] = rest[i]
      /\ Last(stack'[w]) = f /\ stack'[w] # <<>>
  BY <1>2, <1>3, AppendFacts DEF rest
<1>5. Len(rest) + 1 = Depth(w)
  BY <1>3
<1>6. stack' \in [Workers -> Seq(FrameType)]
  BY <1>4 DEF Goto
<1> QED
  BY <1>2, <1>3, <1>4, <1>5, <1>6 DEF Depth, Top, Active

LEMMA ReturnFacts ==
    ASSUME stack \in [Workers -> Seq(FrameType)], NEW w \in Workers, Active(w), Return(w)
    PROVE  /\ stack' \in [Workers -> Seq(FrameType)] /\ Others(w)
           /\ Depth(w) \in Nat \ {0} /\ Top(w) = stack[w][Depth(w)] /\ Top(w) \in FrameType
           /\ Depth(w)' = Depth(w) - 1
           /\ \A i \in 1 .. Depth(w) - 1 : stack'[w][i] = stack[w][i]
           /\ Active(w)' <=> Depth(w) # 1
           /\ Active(w)' => Top(w)' = stack[w][Depth(w) - 1] /\ Top(w)' \in FrameType
<1>1. stack[w] \in Seq(FrameType) /\ stack[w] # <<>>
  BY DEF Active
<1>2. stack'[w] = Front(stack[w]) /\ Others(w)
  BY DEF Return, Others
<1> DEFINE rest == Front(stack[w])
<1>0. /\ Depth(w) \in Nat \ {0} /\ Top(w) = stack[w][Depth(w)] /\ Top(w) \in FrameType
      /\ rest \in Seq(FrameType) /\ Len(rest) = Depth(w) - 1
      /\ \A i \in 1 .. Depth(w) - 1 : rest[i] = stack[w][i]
  BY <1>1, FrontFacts DEF Depth, Top
<1> HIDE DEF rest
<1>3. /\ Depth(w) \in Nat \ {0} /\ Top(w) = stack[w][Depth(w)] /\ Top(w) \in FrameType
      /\ stack'[w] \in Seq(FrameType) /\ Len(stack'[w]) = Depth(w) - 1
      /\ \A i \in 1 .. Depth(w) - 1 : stack'[w][i] = stack[w][i]
  BY <1>0, <1>2 DEF rest
<1>4. stack'[w] = <<>> <=> Depth(w) = 1
  <2>1. stack'[w] = <<>> <=> Len(stack'[w]) = 0
    BY <1>3, EmptySeq
  <2> QED
    BY <1>3, <2>1
<1>5. ASSUME stack'[w] # <<>>
      PROVE  Last(stack'[w]) = stack[w][Depth(w) - 1] /\ Last(stack'[w]) \in FrameType
  <2>0. PICK s \in Seq(FrameType) : s = stack'[w] /\ s # <<>>
    BY <1>3, <1>5
  <2>a. Last(s) = s[Len(s)] /\ Last(s) \in FrameType /\ Len(s) \in Nat \ {0}
    BY <2>0, FrontFacts
  <2>1. /\ Last(stack'[w]) = stack'[w][Depth(w) - 1] /\ Last(stack'[w]) \in FrameType
        /\ Depth(w) - 1 \in Nat \ {0}
    BY <1>3, <2>0, <2>a
  <2>2. Depth(w) - 1 \in 1 .. Depth(w) - 1
    BY <1>3, <2>1
  <2> QED
    BY <1>3, <2>1, <2>2
<1>6. stack' \in [Workers -> Seq(FrameType)]
  BY <1>3 DEF Return
<1> QED
  BY <1>2, <1>3, <1>4, <1>5, <1>6 DEF Depth, Top, Active

LEMMA CallFacts ==
    ASSUME stack \in [Workers -> Seq(FrameType)], NEW w \in Workers, Active(w),
           NEW f \in FrameType, NEW g \in FrameType, Call(w, f, g)
    PROVE  /\ stack' \in [Workers -> Seq(FrameType)] /\ Others(w)
           /\ Depth(w) \in Nat \ {0} /\ Top(w) = stack[w][Depth(w)] /\ Top(w) \in FrameType
           /\ Depth(w)' = Depth(w) + 1 /\ Active(w)'
           /\ Top(w)' = g /\ stack'[w][Depth(w) + 1] = g /\ stack'[w][Depth(w)] = f
           /\ \A i \in 1 .. Depth(w) - 1 : stack'[w][i] = stack[w][i]
<1>1. stack[w] \in Seq(FrameType) /\ stack[w] # <<>>
  BY DEF Active
<1> DEFINE rest == Front(stack[w])
<1>2. stack'[w] = rest \o <<f, g>> /\ Others(w)
  BY DEF Call, Others
<1>3. /\ Depth(w) \in Nat \ {0} /\ Top(w) = stack[w][Depth(w)] /\ Top(w) \in FrameType
      /\ rest \in Seq(FrameType) /\ Len(rest) = Depth(w) - 1
      /\ \A i \in 1 .. Depth(w) - 1 : rest[i] = stack[w][i]
  BY <1>1, FrontFacts DEF Depth, Top
<1> HIDE DEF rest
<1> DEFINE new == <<f, g>>
<1>4. new \in Seq(FrameType) /\ Len(new) = 2 /\ new[1] = f /\ new[2] = g
  OBVIOUS
<1> HIDE DEF new
<1>5. /\ stack'[w] \in Seq(FrameType) /\ Len(stack'[w]) = Len(rest) + 2
      /\ \A i \in 1 .. Len(rest) + 2 :
            stack'[w][i] = IF i <= Len(rest) THEN rest[i] ELSE new[i - Len(rest)]
  BY <1>2, <1>3, <1>4, ConcatProperties DEF new
<1>6. /\ Len(stack'[w]) = Depth(w) + 1
      /\ \A i \in 1 .. Depth(w) - 1 : stack'[w][i] = stack[w][i]
      /\ stack'[w][Depth(w)] = f /\ stack'[w][Depth(w) + 1] = g
  <2>1. Len(rest) + 2 = Depth(w) + 1 /\ Depth(w) - Len(rest) = 1 /\ Depth(w) + 1 - Len(rest) = 2
    BY <1>3
  <2>a. /\ \A i \in 1 .. Depth(w) - 1 : i \in 1 .. Len(rest) + 2 /\ i <= Len(rest)
        /\ Depth(w) \in 1 .. Len(rest) + 2 /\ Depth(w) + 1 \in 1 .. Len(rest) + 2
        /\ ~ (Depth(w) <= Len(rest)) /\ ~ (Depth(w) + 1 <= Len(rest))
    BY <1>3
  <2>2. \A i \in 1 .. Depth(w) - 1 : stack'[w][i] = stack[w][i]
    BY <1>3, <1>5, <2>a
  <2>3. stack'[w][Depth(w)] = new[1] /\ stack'[w][Depth(w) + 1] = new[2]
    <3>1. \A i \in 1 .. Len(rest) + 2 : ~ (i <= Len(rest)) => stack'[w][i] = new[i - Len(rest)]
      BY <1>5
    <3>2. PICK d \in 1 .. Len(rest) + 2 : d = Depth(w) /\ ~ (d <= Len(rest)) /\ d - Len(rest) = 1
      BY <2>1, <2>a
    <3>3. PICK e \in 1 .. Len(rest) + 2 : e = Depth(w) + 1 /\ ~ (e <= Len(rest)) /\ e - Len(rest) = 2
      BY <2>1, <2>a
    <3> QED
      BY <3>1, <3>2, <3>3
  <2> QED
    BY <1>4, <1>5, <2>1, <2>2, <2>3
<1>7. stack'[w] # <<>> /\ Last(stack'[w]) = stack'[w][Depth(w) + 1]
  BY <1>3, <1>5, <1>6, EmptySeq DEF Last
<1>8. stack' \in [Workers -> Seq(FrameType)]
  BY <1>5 DEF Call
<1> QED
  BY <1>2, <1>3, <1>6, <1>7, <1>8 DEF Depth, Top, Active

\* The same, as the frames that are there afterwards.
LEMMA GotoFrames ==
    ASSUME stack \in [Workers -> Seq(FrameType)], NEW w \in Workers, Active(w),
           NEW f \in FrameType, Goto(w, f)
    PROVE  /\ Depth(w)' = Depth(w)
           /\ \A i \in Nat : \A g : FrameAt(w, i, g)' <=>
                 IF i = Depth(w) THEN g = f ELSE FrameAt(w, i, g)
<1>1. /\ Depth(w) \in Nat \ {0} /\ Depth(w)' = Depth(w) /\ stack'[w][Depth(w)] = f
      /\ \A i \in 1 .. Depth(w) - 1 : stack'[w][i] = stack[w][i]
  BY GotoFacts
<1>2. \A i \in Nat : i \in 1 .. Depth(w) <=> i = Depth(w) \/ i \in 1 .. Depth(w) - 1
  BY <1>1
<1>3. \A i \in Nat : i \in 1 .. Depth(w) - 1 => i # Depth(w)
  BY <1>1
<1> QED
  BY <1>1, <1>2, <1>3 DEF FrameAt

LEMMA ReturnFrames ==
    ASSUME stack \in [Workers -> Seq(FrameType)], NEW w \in Workers, Active(w), Return(w)
    PROVE  /\ Depth(w)' = Depth(w) - 1
           /\ \A i \in Nat : \A g : FrameAt(w, i, g)' <=> i # Depth(w) /\ FrameAt(w, i, g)
<1>1. /\ Depth(w) \in Nat \ {0} /\ Depth(w)' = Depth(w) - 1
      /\ \A i \in 1 .. Depth(w) - 1 : stack'[w][i] = stack[w][i]
  BY ReturnFacts
<1>2. \A i \in Nat : i \in 1 .. Depth(w) - 1 <=> i # Depth(w) /\ i \in 1 .. Depth(w)
  BY <1>1
<1> QED
  BY <1>1, <1>2 DEF FrameAt

LEMMA CallFrames ==
    ASSUME stack \in [Workers -> Seq(FrameType)], NEW w \in Workers, Active(w),
           NEW f \in FrameType, NEW g \in FrameType, Call(w, f, g)
    PROVE  /\ Depth(w)' = Depth(w) + 1
           /\ \A i \in Nat : \A h : FrameAt(w, i, h)' <=>
                 IF i = Depth(w) THEN h = f
                 ELSE IF i = Depth(w) + 1 THEN h = g ELSE FrameAt(w, i, h)
<1>1. /\ Depth(w) \in Nat \ {0} /\ Depth(w)' = Depth(w) + 1
      /\ stack'[w][Depth(w) + 1] = g /\ stack'[w][Depth(w)] = f
      /\ \A i \in 1 .. Depth(w) - 1 : stack'[w][i] = stack[w][i]
  BY CallFacts
<1>2. \A i \in Nat : i \in 1 .. Depth(w) + 1 <=>
         i = Depth(w) \/ i = Depth(w) + 1 \/ i \in 1 .. Depth(w) - 1
  BY <1>1
<1>3. \A i \in Nat : i \in 1 .. Depth(w) - 1 => i # Depth(w) /\ i # Depth(w) + 1
  BY <1>1
<1>4. \A i \in Nat : i # Depth(w) /\ i # Depth(w) + 1 =>
         (i \in 1 .. Depth(w) <=> i \in 1 .. Depth(w) - 1)
  BY <1>1
<1>5. Depth(w) # Depth(w) + 1
  BY <1>1
<1> QED
  BY <1>1, <1>2, <1>3, <1>4, <1>5 DEF FrameAt

LEMMA OtherFrames ==
    ASSUME NEW w \in Workers, Others(w)
    PROVE  \A v \in Workers : v # w =>
              /\ Depth(v)' = Depth(v) /\ (Active(v)' <=> Active(v)) /\ Top(v)' = Top(v)
              /\ (InLoop(v)' <=> InLoop(v))
              /\ \A i \in Nat : \A g : FrameAt(v, i, g)' <=> FrameAt(v, i, g)
              /\ \A kind, pc : At(v, kind, pc)' <=> At(v, kind, pc)
<1> SUFFICES ASSUME NEW v \in Workers, v # w
             PROVE  /\ Depth(v)' = Depth(v) /\ (Active(v)' <=> Active(v)) /\ Top(v)' = Top(v)
                    /\ (InLoop(v)' <=> InLoop(v))
                    /\ \A i \in Nat : \A g : FrameAt(v, i, g)' <=> FrameAt(v, i, g)
                    /\ \A kind, pc : At(v, kind, pc)' <=> At(v, kind, pc)
  OBVIOUS
<1>1. stack'[v] = stack[v]
  BY DEF Others
<1> QED
  BY <1>1 DEF Depth, Active, Top, InLoop, FrameAt, At

-----------------------------------------------------------------------------
(* What a worker knows of its innermost frame.                              *)

LEMMA AtTop ==
    ASSUME PoolInv, NEW w \in Workers, Active(w)
    PROVE  /\ stack \in [Workers -> Seq(FrameType)]
           /\ Depth(w) \in Nat \ {0} /\ FrameAt(w, Depth(w), Top(w))
           /\ Top(w) \in FrameType /\ FrameFits(Top(w))
           /\ Depth(w) = 1 <=> Top(w).task = None
           /\ Top(w).kind = "task" =>
                 /\ Depth(w) # 1 /\ Top(w).task \in Tasks
                 /\ Progress(Top(w))
                 /\ state[Top(w).task] = IF Top(w).pc \in {"lock", "flush"}
                                         THEN "completed" ELSE "running"
<1>0. Types /\ StackInv /\ FrameInv /\ KidInv
  BY DEF PoolInv
<1>1. stack \in [Workers -> Seq(FrameType)] /\ stack[w] \in Seq(FrameType) /\ stack[w] # <<>>
  BY <1>0 DEF Types, Active
<1>2. /\ Depth(w) \in Nat \ {0} /\ Top(w) = stack[w][Depth(w)] /\ Top(w) \in FrameType
  BY <1>1, FrontFacts DEF Depth, Top
<1>3. FrameAt(w, Depth(w), Top(w))
  BY <1>2 DEF FrameAt
<1>4. /\ FrameFits(Top(w)) /\ (Depth(w) = 1 <=> Top(w).task = None)
      /\ Top(w).kind = "task" => Depth(w) # 1
  BY <1>0, <1>2, <1>3 DEF StackInv
<1>5. Top(w).kind = "task" => Runs(w, Depth(w), Top(w)) /\ Top(w).task \in Tasks
  BY <1>2, <1>3, <1>4 DEF Runs, FrameType
<1>6. Top(w).kind = "task" =>
         /\ Progress(Top(w))
         /\ state[Top(w).task] = IF Top(w).pc \in {"lock", "flush"} THEN "completed" ELSE "running"
  BY <1>0, <1>2, <1>3, <1>5 DEF FrameInv, KidInv
<1> QED
  BY <1>1, <1>2, <1>3, <1>4, <1>5, <1>6

-----------------------------------------------------------------------------
(* How the frames may change.                                               *)

LEMMA SameRunsInv ==
    ASSUME FrameInv, KidInv, state' = state,
           \A v \in Workers, i \in Nat, f \in FrameType : Runs(v, i, f)' <=> Runs(v, i, f)
    PROVE  FrameInv' /\ KidInv'
<1>1. FrameInv'
  BY DEF FrameInv
<1>2. \A f \in FrameType : Progress(f) => Progress(f)'
  BY DEF Progress, Fresh, Done
<1> QED
  BY <1>1, <1>2 DEF KidInv, Fresh, Done

\* A step in a loop, to frame f.
LEMMA LoopGotoInv ==
    ASSUME PoolInv, NEW w \in Workers, InLoop(w), NEW f \in FrameType, Goto(w, f),
           f.kind = "loop", f.task = Top(w).task, FrameFits(f), state' = state
    PROVE  StackInv' /\ FrameInv' /\ KidInv'
<1>0. StackInv /\ FrameInv /\ KidInv
  BY DEF PoolInv
<1>1. /\ Active(w) /\ Top(w).kind = "loop" /\ Others(w) /\ Depth(w) \in Nat
      /\ Depth(w) = 1 <=> Top(w).task = None
      /\ \A g : FrameAt(w, Depth(w), g) <=> g = Top(w)
  BY AtTop, GotoFacts DEF InLoop, FrameAt
<1>2. \A v \in Workers, i \in Nat : \A g : FrameAt(v, i, g)' <=>
         IF v = w /\ i = Depth(w) THEN g = f ELSE FrameAt(v, i, g)
  BY <1>1, GotoFrames, OtherFrames, AtTop
<1>3. \A v \in Workers : Depth(v)' = Depth(v)
  BY <1>1, GotoFrames, OtherFrames, AtTop
<1>4. StackInv'
  BY <1>0, <1>1, <1>2, <1>3 DEF StackInv
<1>5. \A v \in Workers, i \in Nat, g \in FrameType : Runs(v, i, g)' <=> Runs(v, i, g)
  BY <1>1, <1>2 DEF Runs
<1> QED
  BY <1>0, <1>4, <1>5, SameRunsInv

\* The end of a loop.
LEMMA LoopReturnInv ==
    ASSUME PoolInv, NEW w \in Workers, InLoop(w), Return(w), state' = state
    PROVE  StackInv' /\ FrameInv' /\ KidInv'
<1>0. StackInv /\ FrameInv /\ KidInv
  BY DEF PoolInv
<1>1. /\ Active(w) /\ Top(w).kind = "loop" /\ Others(w) /\ Depth(w) \in Nat
      /\ \A g : FrameAt(w, Depth(w), g) <=> g = Top(w)
  BY AtTop, ReturnFacts DEF InLoop, FrameAt
<1>2. \A v \in Workers, i \in Nat : \A g : FrameAt(v, i, g)' <=>
         ~ (v = w /\ i = Depth(w)) /\ FrameAt(v, i, g)
  BY <1>1, ReturnFrames, OtherFrames, AtTop
<1>3. /\ \A v \in Workers : v # w => Depth(v)' = Depth(v)
      /\ Depth(w)' = Depth(w) - 1
  BY <1>1, ReturnFrames, OtherFrames, AtTop
<1>4. StackInv'
  BY <1>0, <1>1, <1>2, <1>3 DEF StackInv
<1>5. \A v \in Workers, i \in Nat, g \in FrameType : Runs(v, i, g)' <=> Runs(v, i, g)
  BY <1>1, <1>2 DEF Runs
<1> QED
  BY <1>0, <1>4, <1>5, SameRunsInv

\* A loop runs a task that was queued.
LEMMA RunInv ==
    ASSUME PoolInv, NEW w \in Workers, InLoop(w), NEW t \in Tasks, state[t] = "queued",
           Run(w, t)
    PROVE  /\ StackInv' /\ FrameInv' /\ KidInv'
           /\ stack' \in [Workers -> Seq(FrameType)] /\ Others(w)
           /\ Active(w)' /\ Top(w)' = TaskFrame(t)
           /\ state'[t] = "running" /\ \A s \in Tasks : s # t => state'[s] = state[s]
           /\ state' \in [Tasks -> {"new", "queued", "running", "completed", "released"}]
<1> DEFINE f == [Top(w) EXCEPT !.pc = "check"]
           g == TaskFrame(t)
<1>0. Types /\ StackInv /\ FrameInv /\ KidInv
  BY DEF PoolInv
<1>1. /\ Active(w) /\ Top(w).kind = "loop" /\ Depth(w) \in Nat \ {0}
      /\ Top(w) \in FrameType /\ stack \in [Workers -> Seq(FrameType)]
      /\ Depth(w) = 1 <=> Top(w).task = None
      /\ \A h : FrameAt(w, Depth(w), h) <=> h = Top(w)
      /\ \A h : ~ FrameAt(w, Depth(w) + 1, h)
  BY AtTop DEF InLoop, FrameAt
<1>2. /\ f \in FrameType /\ f.kind = "loop" /\ f.pc = "check" /\ f.task = Top(w).task
      /\ g \in FrameType /\ g.kind = "task" /\ g.task = t /\ g.pc = "spawn" /\ g.n = 1
  <2>1. f \in FrameType /\ f.kind = "loop" /\ f.pc = "check" /\ f.task = Top(w).task
    BY <1>1 DEF FrameType, LoopPcs
  <2>2. g = [kind |-> "task", pc |-> "spawn", task |-> t, n |-> 1, added |-> FALSE, victims |-> {}]
    BY DEF TaskFrame
  <2>3. g \in FrameType
    BY <2>2 DEF FrameType, TaskPcs
  <2> QED
    BY <2>1, <2>2, <2>3
<1>3. /\ Call(w, f, g) /\ t # None
      /\ state'[t] = "running" /\ \A s \in Tasks : s # t => state'[s] = state[s]
      /\ state' \in [Tasks -> {"new", "queued", "running", "completed", "released"}]
  BY <1>0, ThreadPoolAssumption DEF Run, Types
<1> HIDE DEF f, g
<1>4. /\ Others(w) /\ Active(w)' /\ Top(w)' = g /\ stack' \in [Workers -> Seq(FrameType)]
  BY <1>1, <1>2, <1>3, CallFacts
<1>5. \A v \in Workers, i \in Nat : \A h : FrameAt(v, i, h)' <=>
         IF v = w /\ i = Depth(w) THEN h = f
         ELSE IF v = w /\ i = Depth(w) + 1 THEN h = g ELSE FrameAt(v, i, h)
  BY <1>1, <1>2, <1>3, <1>4, CallFrames, OtherFrames
<1>6. /\ \A v \in Workers : v # w => Depth(v)' = Depth(v)
      /\ Depth(w)' = Depth(w) + 1
  BY <1>1, <1>2, <1>3, <1>4, CallFrames, OtherFrames
<1>7. StackInv'
  <2>1. FrameFits(f) /\ FrameFits(g)
    BY <1>2 DEF FrameFits, LoopPcs, TaskPcs
  <2>2. /\ Depth(w) + 1 # 1 /\ Depth(w) # Depth(w) + 1
        /\ \A i \in Nat : \A h : FrameAt(w, i, h) => i \in 1 .. Depth(w)
    BY <1>1 DEF FrameAt
  <2> QED
    BY <1>0, <1>1, <1>2, <1>3, <1>5, <1>6, <2>1, <2>2 DEF StackInv
<1>8. \A v \in Workers, i \in Nat, h \in FrameType : Runs(v, i, h)' <=>
         (v = w /\ i = Depth(w) + 1 /\ h = g) \/ Runs(v, i, h)
  BY <1>1, <1>2, <1>5 DEF Runs
<1>9. \A v \in Workers, i \in Nat, h \in FrameType : Runs(v, i, h) => h.task \in Tasks /\ h.task # t
  <2> SUFFICES ASSUME NEW v \in Workers, NEW i \in Nat, NEW h \in FrameType, Runs(v, i, h)
               PROVE  h.task \in Tasks /\ h.task # t
    OBVIOUS
  <2>1. h.task # None
    BY <1>0 DEF StackInv, Runs
  <2>2. state[h.task] # "queued"
    BY <1>0 DEF FrameInv
  <2> QED
    BY <2>1, <2>2 DEF FrameType
<1>10. FrameInv'
  <2>1. \A v, u \in Workers : \A i, j \in Nat : \A h, k \in FrameType :
           Runs(v, i, h)' /\ Runs(u, j, k)' /\ h.task = k.task => v = u /\ i = j
    BY <1>0, <1>2, <1>8, <1>9 DEF FrameInv
  <2>2. \A v \in Workers, i \in Nat, h \in FrameType : Runs(v, i, h)' =>
           state'[h.task] = IF h.pc \in {"lock", "flush"} THEN "completed" ELSE "running"
    BY <1>0, <1>2, <1>3, <1>8, <1>9 DEF FrameInv
  <2>3. \A s \in Tasks : state'[s] \in {"running", "completed"} =>
           \E v \in Workers, i \in Nat, h \in FrameType : Runs(v, i, h)' /\ h.task = s
    <3> SUFFICES ASSUME NEW s \in Tasks, state'[s] \in {"running", "completed"}
                 PROVE  \E v \in Workers, i \in Nat, h \in FrameType : Runs(v, i, h)' /\ h.task = s
      OBVIOUS
    <3>1. CASE s = t
      <4>1. PICK d \in Nat : d = Depth(w) + 1
        BY <1>1
      <4>2. PICK h \in FrameType : h = g /\ h.task = s
        BY <1>2, <3>1
      <4>3. Runs(w, d, h)'
        BY <1>8, <4>1, <4>2
      <4> QED
        BY <4>2, <4>3
    <3>2. CASE s # t
      BY <1>0, <1>3, <1>8, <3>2 DEF FrameInv
    <3> QED
      BY <3>1, <3>2
  <2> QED
    BY <2>1, <2>2, <2>3 DEF FrameInv
<1>11. KidInv'
  <2>1. \A s \in Tasks : \A k \in DOMAIN Kids[s] : Kids[s][k] \in Tasks
    BY ThreadPoolAssumption, ElementOfSeq, LenProperties
  <2>2. \A s \in Tasks : \A n : (Fresh(s, n) => Fresh(s, n)') /\ (Done(s, n) => Done(s, n)')
    BY <1>3, <2>1 DEF Fresh, Done
  <2>3. \A h \in FrameType : h.task \in Tasks /\ Progress(h) => Progress(h)'
    BY <2>2 DEF Progress
  <2>4. Progress(g)'
    <3>1. Fresh(t, 1)
      BY <1>0 DEF KidInv
    <3>2. 1 \in 1 .. Len(Kids[t]) + 1
      BY ThreadPoolAssumption, LenProperties
    <3> QED
      BY <1>2, <2>2, <3>1, <3>2 DEF Progress
  <2>5. \A v \in Workers, i \in Nat, h \in FrameType : Runs(v, i, h)' => Progress(h)'
    BY <1>0, <1>8, <1>9, <2>3, <2>4 DEF KidInv
  <2>6. \A s \in Tasks : state'[s] \in {"new", "queued"} => Fresh(s, 1)'
    BY <1>0, <1>3, <2>2 DEF KidInv
  <2>7. \A s \in Tasks : state'[s] = "released" => Done(s, 0)'
    BY <1>0, <1>3, <2>2 DEF KidInv
  <2> QED
    BY <2>5, <2>6, <2>7 DEF KidInv
<1> QED
  BY <1>3, <1>4, <1>7, <1>10, <1>11 DEF g

\* The frame of a task, and nothing else of its, is changed from g to f.
LEMMA ChangedRunInv ==
    ASSUME FrameInv, KidInv, state' = state,
           NEW w \in Workers, NEW d \in Nat, NEW f \in FrameType, NEW g \in FrameType,
           Runs(w, d, g), f.task = g.task, Progress(f),
           f.pc \in {"lock", "flush"} <=> g.pc \in {"lock", "flush"},
           \A v \in Workers, i \in Nat, h \in FrameType : Runs(v, i, h)' <=>
              IF v = w /\ i = d THEN h = f ELSE Runs(v, i, h)
    PROVE  FrameInv' /\ KidInv'
<1>1. FrameInv'
  <2>1. \A v, u \in Workers : \A i, j \in Nat : \A h, k \in FrameType :
           Runs(v, i, h)' /\ Runs(u, j, k)' /\ h.task = k.task => v = u /\ i = j
    BY DEF FrameInv
  <2>2. \A v \in Workers, i \in Nat, h \in FrameType : Runs(v, i, h)' =>
           state[h.task] = IF h.pc \in {"lock", "flush"} THEN "completed" ELSE "running"
    BY DEF FrameInv
  <2>3. \A s \in Tasks : state[s] \in {"running", "completed"} =>
           \E v \in Workers, i \in Nat, h \in FrameType : Runs(v, i, h)' /\ h.task = s
    <3> SUFFICES ASSUME NEW s \in Tasks, state[s] \in {"running", "completed"}
                 PROVE  \E v \in Workers, i \in Nat, h \in FrameType : Runs(v, i, h)' /\ h.task = s
      OBVIOUS
    <3>1. PICK v \in Workers, i \in Nat, h \in FrameType : Runs(v, i, h) /\ h.task = s
      BY DEF FrameInv
    <3>2. CASE v = w /\ i = d
      <4>1. h = g
        BY <3>1, <3>2 DEF Runs, FrameAt
      <4>2. Runs(v, i, f)' /\ f.task = s
        BY <3>1, <3>2, <4>1
      <4> QED
        BY <4>2
    <3>3. CASE ~ (v = w /\ i = d)
      BY <3>1, <3>3
    <3> QED
      BY <3>2, <3>3
  <2> QED
    BY <2>1, <2>2, <2>3 DEF FrameInv
<1>2. KidInv'
  <2>1. \A h \in FrameType : Progress(h) => Progress(h)'
    BY DEF Progress, Fresh, Done
  <2> QED
    BY <2>1 DEF KidInv, Fresh, Done
<1> QED
  BY <1>1, <1>2

\* A step in a task's function, to frame f.
LEMMA TaskGotoInv ==
    ASSUME PoolInv, NEW w \in Workers, Active(w), Top(w).kind = "task",
           NEW f \in FrameType, Goto(w, f), f.kind = "task", f.task = Top(w).task,
           FrameFits(f), Progress(f), state' = state,
           f.pc \in {"lock", "flush"} <=> Top(w).pc \in {"lock", "flush"}
    PROVE  StackInv' /\ FrameInv' /\ KidInv'
<1>0. StackInv /\ FrameInv /\ KidInv
  BY DEF PoolInv
<1>1. /\ Others(w) /\ Depth(w) \in Nat /\ Depth(w) # 1 /\ Top(w).task # None /\ Top(w) \in FrameType
      /\ \A g : FrameAt(w, Depth(w), g) <=> g = Top(w)
  BY AtTop, GotoFacts DEF FrameAt
<1>2. \A v \in Workers, i \in Nat : \A g : FrameAt(v, i, g)' <=>
         IF v = w /\ i = Depth(w) THEN g = f ELSE FrameAt(v, i, g)
  BY <1>1, GotoFrames, OtherFrames, AtTop
<1>3. \A v \in Workers : Depth(v)' = Depth(v)
  BY <1>1, GotoFrames, OtherFrames, AtTop
<1>4. StackInv'
  BY <1>0, <1>1, <1>2, <1>3 DEF StackInv
<1>5. PICK d \in Nat, g \in FrameType : d = Depth(w) /\ g = Top(w)
  BY <1>1
<1>6. /\ Runs(w, d, g)
      /\ \A v \in Workers, i \in Nat, h \in FrameType : Runs(v, i, h)' <=>
            IF v = w /\ i = d THEN h = f ELSE Runs(v, i, h)
  BY <1>1, <1>2, <1>5 DEF Runs
<1>7. FrameInv' /\ KidInv'
  BY <1>0, <1>5, <1>6, ChangedRunInv
<1> QED
  BY <1>4, <1>7

\* A task waits for a subtask.
LEMMA TaskCallInv ==
    ASSUME PoolInv, NEW w \in Workers, Active(w), Top(w).kind = "task",
           Top(w).pc \notin {"lock", "flush"},
           NEW f \in FrameType, NEW t \in Tasks, Call(w, f, LoopFrame(t)),
           f.kind = "task", f.task = Top(w).task, f.pc \in {"result", "unique"},
           Progress(f), state' = state
    PROVE  /\ StackInv' /\ FrameInv' /\ KidInv'
           /\ stack' \in [Workers -> Seq(FrameType)] /\ Others(w)
           /\ Active(w)' /\ Top(w)' = LoopFrame(t)
<1> DEFINE l == LoopFrame(t)
<1>0. StackInv /\ FrameInv /\ KidInv
  BY DEF PoolInv
<1>1. /\ Depth(w) \in Nat \ {0} /\ Depth(w) # 1 /\ Top(w).task # None /\ Top(w) \in FrameType
      /\ stack \in [Workers -> Seq(FrameType)]
      /\ \A g : FrameAt(w, Depth(w), g) <=> g = Top(w)
      /\ \A g : ~ FrameAt(w, Depth(w) + 1, g)
  BY AtTop DEF FrameAt
<1>2. l \in FrameType /\ l.kind = "loop" /\ l.pc = "check" /\ l.task = t /\ t # None
  <2>1. l = [kind |-> "loop", pc |-> "check", task |-> t, n |-> 0, added |-> FALSE, victims |-> {}]
    BY DEF LoopFrame
  <2>2. l \in FrameType
    BY <2>1 DEF FrameType, LoopPcs
  <2> QED
    BY <2>1, <2>2, ThreadPoolAssumption
<1> HIDE DEF l
<1>3. Call(w, f, l)
  BY DEF l
<1>4. /\ Others(w) /\ Active(w)' /\ Top(w)' = l /\ stack' \in [Workers -> Seq(FrameType)]
  BY <1>1, <1>2, <1>3, CallFacts
<1>5. \A v \in Workers, i \in Nat : \A h : FrameAt(v, i, h)' <=>
         IF v = w /\ i = Depth(w) THEN h = f
         ELSE IF v = w /\ i = Depth(w) + 1 THEN h = l ELSE FrameAt(v, i, h)
  BY <1>1, <1>2, <1>3, <1>4, CallFrames, OtherFrames
<1>6. /\ \A v \in Workers : v # w => Depth(v)' = Depth(v)
      /\ Depth(w)' = Depth(w) + 1
  BY <1>1, <1>2, <1>3, <1>4, CallFrames, OtherFrames
<1>7. StackInv'
  <2>1. FrameFits(f) /\ FrameFits(l)
    BY <1>2 DEF FrameFits, LoopPcs, TaskPcs
  <2>2. /\ Depth(w) + 1 # 1 /\ Depth(w) # Depth(w) + 1
        /\ \A i \in Nat : \A h : FrameAt(w, i, h) => i \in 1 .. Depth(w)
    BY <1>1 DEF FrameAt
  <2> QED
    BY <1>0, <1>1, <1>2, <1>5, <1>6, <2>1, <2>2 DEF StackInv
<1>8. PICK d \in Nat, g \in FrameType : d = Depth(w) /\ g = Top(w)
  BY <1>1
<1>9. /\ Runs(w, d, g)
      /\ \A v \in Workers, i \in Nat, h \in FrameType : Runs(v, i, h)' <=>
            IF v = w /\ i = d THEN h = f ELSE Runs(v, i, h)
  BY <1>1, <1>2, <1>5, <1>8 DEF Runs
<1>10. FrameInv' /\ KidInv'
  BY <1>0, <1>8, <1>9, ChangedRunInv
<1> QED
  BY <1>4, <1>7, <1>10 DEF l

-----------------------------------------------------------------------------
(* How the rest may change.                                                 *)

\* A worker that neither holds the lock nor sleeps nor leaves.
Busy(w) == Active(w) /\ (Top(w).kind = "task" \/ Top(w).pc \in {"check", "pop", "steal"})

WakeInv == LockInv /\ WaitInv /\ IdleInv /\ WorkInv /\ EndInv

\* Only worker w has done something, and is busy before and after.
LEMMA BusyInv ==
    ASSUME PoolInv, NEW w \in Workers, Others(w), Busy(w), Busy(w)',
           Top(w).kind \in {"loop", "task"}, Top(w)'.kind \in {"loop", "task"},
           UNCHANGED <<main, lock, waiters, shutdown, left, joined>>,
           public = <<>> => public' = <<>>,
           \A v \in Workers : v # w => event[v] \subseteq event'[v],
           \A v \in Workers : v # w /\ queue[v] = <<>> => queue'[v] = <<>>,
           InLoop(w)' /\ Top(w)'.pc = "steal" => queue'[w] = <<>>
    PROVE  WakeInv'
<1>0. LockInv /\ WaitInv /\ IdleInv /\ WorkInv /\ EndInv
  BY DEF PoolInv
<1>1. /\ \A pc \in {"on_finish", "enlist", "wait", "delist"} : ~ At(w, "loop", pc) /\ ~ At(w, "loop", pc)'
      /\ Active(w) /\ Active(w)' /\ ~ Asleep(w)'
      /\ InLoop(w)' => Top(w)'.pc \in {"check", "pop", "steal"}
  BY DEF Busy, At, Asleep, InLoop
<1>2. \A v \in Workers : v # w =>
         /\ (Active(v)' <=> Active(v)) /\ Top(v)' = Top(v) /\ (InLoop(v)' <=> InLoop(v))
         /\ \A kind, pc : At(v, kind, pc)' <=> At(v, kind, pc)
  BY OtherFrames
<1>3. \A v \in Workers : v # w /\ Asleep(v)' => Asleep(v)
  BY <1>2 DEF Asleep
<1>4. LockInv'
  BY <1>0, <1>1, <1>2 DEF LockInv
<1>5. WaitInv'
  BY <1>0, <1>1, <1>2, <1>3 DEF WaitInv, InWaiters
<1>6. IdleInv'
  BY <1>0, <1>1, <1>2 DEF IdleInv
<1>7. WorkInv'
  BY <1>1 DEF WorkInv
<1>8. EndInv'
  <2>1. Present' = Present
    BY <1>1, <1>2 DEF Present
  <2> QED
    BY <1>0, <2>1 DEF EndInv
<1> QED
  BY <1>4, <1>5, <1>6, <1>7, <1>8 DEF WakeInv

\* The stacks, the lists and the lock stay; an event may be signalled.
LEMMA StillInv ==
    ASSUME PoolInv, UNCHANGED <<stack, queue, public, lock, waiters, shutdown, left, joined>>,
           \A v \in Workers : event[v] \subseteq event'[v],
           main'.pc \in {"join", "freed"} <=> main.pc \in {"join", "freed"}
    PROVE  WakeInv'
<1>0. LockInv /\ WaitInv /\ IdleInv /\ WorkInv /\ EndInv
  BY DEF PoolInv
<1>1. \A v \in Workers :
         /\ (Active(v)' <=> Active(v)) /\ Top(v)' = Top(v) /\ (InLoop(v)' <=> InLoop(v))
         /\ \A kind, pc : At(v, kind, pc)' <=> At(v, kind, pc)
  BY DEF Active, Top, InLoop, At
<1>2. \A v \in Workers : Asleep(v)' => Asleep(v)
  BY <1>1 DEF Asleep
<1>3. LockInv' /\ WaitInv' /\ IdleInv' /\ WorkInv'
  BY <1>0, <1>1, <1>2 DEF LockInv, WaitInv, IdleInv, WorkInv, InWaiters
<1>4. EndInv'
  <2>1. Present' = Present
    BY <1>1 DEF Present
  <2> QED
    BY <1>0, <2>1 DEF EndInv
<1> QED
  BY <1>3, <1>4 DEF WakeInv

\* No task is queued or dequeued.
LEMMA SameQueuesInv ==
    ASSUME QueueInv, queue' = queue, public' = public,
           \A t \in Tasks : state'[t] = "queued" <=> state[t] = "queued"
    PROVE  QueueInv'
BY DEF QueueInv

\* Task t is taken out of the queue of v.
LEMMA DequeueInv ==
    ASSUME QueueInv, queue \in [Workers -> Seq(Tasks)], NEW v \in Workers, NEW t \in Tasks,
           NEW q \in Seq(Tasks), queue' = [queue EXCEPT ![v] = q], public' = public,
           ToSet(queue[v]) = ToSet(q) \cup {t}, t \notin ToSet(q), IsInjective(q),
           state'[t] # "queued", \A s \in Tasks : s # t => state'[s] = state[s]
    PROVE  QueueInv' /\ queue' \in [Workers -> Seq(Tasks)] /\ state[t] = "queued"
<1>1. /\ queue'[v] = q /\ \A w \in Workers : w # v => queue'[w] = queue[w]
      /\ queue' \in [Workers -> Seq(Tasks)]
  OBVIOUS
<1>2. /\ \A w \in Workers : \A s \in Tasks : s \in ToSet(queue'[w]) <=> s \in ToSet(queue[w]) /\ s # t
      /\ t \notin ToSet(public) /\ state[t] = "queued"
  BY <1>1 DEF QueueInv
<1>3. \A w \in Workers : IsInjective(queue'[w])
  BY <1>1 DEF QueueInv
<1>4. /\ \A u, w \in Workers : \A s \in Tasks :
            s \in ToSet(queue'[u]) /\ s \in ToSet(queue'[w]) => u = w
      /\ \A w \in Workers : \A s \in Tasks : s \in ToSet(queue'[w]) => s \notin ToSet(public)
  BY <1>2 DEF QueueInv
<1>5. \A w \in Workers : \A s \in Tasks : s \in ToSet(queue'[w]) => state'[s] = "queued"
  <2>1. \A w \in Workers : \A s \in Tasks : s \in ToSet(queue[w]) => state[s] = "queued"
    BY DEF QueueInv
  <2> QED
    BY <1>2, <2>1
<1>6. \A s \in Tasks : s \in ToSet(public) => state'[s] = "queued"
  <2>1. \A s \in Tasks : s \in ToSet(public) => state[s] = "queued"
    BY DEF QueueInv
  <2> QED
    BY <1>2, <2>1
<1>7. \A s \in Tasks : state'[s] = "queued" =>
         s \in ToSet(public) \/ \E w \in Workers : s \in ToSet(queue'[w])
  <2> SUFFICES ASSUME NEW s \in Tasks, state'[s] = "queued", s \notin ToSet(public)
               PROVE  \E w \in Workers : s \in ToSet(queue'[w])
    OBVIOUS
  <2>1. s # t /\ state[s] = "queued"
    OBVIOUS
  <2>2. PICK w \in Workers : s \in ToSet(queue[w])
    BY <2>1 DEF QueueInv
  <2> QED
    BY <1>2, <2>1, <2>2
<1> QED
  BY <1>1, <1>2, <1>3, <1>4, <1>5, <1>6, <1>7 DEF QueueInv

LEMMA DequeuePublicInv ==
    ASSUME QueueInv, queue' = queue, NEW t \in Tasks, public' \in Seq(Tasks),
           ToSet(public) = ToSet(public') \cup {t}, t \notin ToSet(public'), IsInjective(public'),
           state'[t] # "queued", \A s \in Tasks : s # t => state'[s] = state[s]
    PROVE  QueueInv' /\ state[t] = "queued"
<1>1. /\ \A s \in Tasks : s \in ToSet(public') <=> s \in ToSet(public) /\ s # t
      /\ \A w \in Workers : t \notin ToSet(queue[w])
      /\ state[t] = "queued"
  BY DEF QueueInv
<1> QED
  BY <1>1 DEF QueueInv

\* Task t, which was in no queue, is put into that of v.
LEMMA EnqueueInv ==
    ASSUME QueueInv, queue \in [Workers -> Seq(Tasks)], NEW v \in Workers, NEW t \in Tasks,
           queue' = [queue EXCEPT ![v] = Append(@, t)], public' = public,
           state[t] # "queued", state'[t] = "queued",
           \A s \in Tasks : s # t => state'[s] = state[s]
    PROVE  QueueInv' /\ queue' \in [Workers -> Seq(Tasks)]
<1>0. PICK q \in Seq(Tasks) : q = queue[v]
  OBVIOUS
<1>1. /\ Append(q, t) \in Seq(Tasks) /\ ToSet(Append(q, t)) = ToSet(q) \cup {t}
      /\ IsInjective(q) /\ t \notin ToSet(q) => IsInjective(Append(q, t))
  BY AppendFacts
<1>2. /\ queue'[v] = Append(q, t) /\ \A w \in Workers : w # v => queue'[w] = queue[w]
      /\ queue' \in [Workers -> Seq(Tasks)]
  BY <1>0, <1>1
<1>3. /\ t \notin ToSet(public) /\ \A w \in Workers : t \notin ToSet(queue[w])
      /\ \A w \in Workers : IsInjective(queue[w])
  BY DEF QueueInv
<1>4. \A w \in Workers : IsInjective(queue'[w])
  BY <1>0, <1>1, <1>2, <1>3
<1>5. \A w \in Workers : \A s \in Tasks : s \in ToSet(queue'[w]) <=> s \in ToSet(queue[w]) \/ (s = t /\ w = v)
  BY <1>0, <1>1, <1>2
<1>6. /\ \A u, w \in Workers : \A s \in Tasks :
            s \in ToSet(queue'[u]) /\ s \in ToSet(queue'[w]) => u = w
      /\ \A w \in Workers : \A s \in Tasks : s \in ToSet(queue'[w]) => s \notin ToSet(public)
  BY <1>3, <1>5 DEF QueueInv
<1>8. /\ \A w \in Workers : \A s \in Tasks : s \in ToSet(queue'[w]) => state'[s] = "queued"
      /\ \A s \in Tasks : s \in ToSet(public) => state'[s] = "queued"
  <2>1. \A s \in Tasks : state[s] = "queued" => state'[s] = "queued"
    OBVIOUS
  <2>2. /\ \A w \in Workers : \A s \in Tasks : s \in ToSet(queue[w]) => state[s] = "queued"
        /\ \A s \in Tasks : s \in ToSet(public) => state[s] = "queued"
    BY DEF QueueInv
  <2> HIDE DEF QueueInv
  <2> QED
    BY <1>5, <2>1, <2>2
<1>9. \A s \in Tasks : state'[s] = "queued" =>
         s \in ToSet(public) \/ \E w \in Workers : s \in ToSet(queue'[w])
  <2> SUFFICES ASSUME NEW s \in Tasks, state'[s] = "queued", s \notin ToSet(public)
               PROVE  \E w \in Workers : s \in ToSet(queue'[w])
    OBVIOUS
  <2>1. CASE s = t
    BY <1>5, <2>1
  <2>2. CASE s # t
    <3>1. PICK w \in Workers : s \in ToSet(queue[w])
      BY <2>2 DEF QueueInv
    <3> QED
      BY <1>5, <3>1
  <2> QED
    BY <2>1, <2>2
<1>7. IsInjective(public')
  BY DEF QueueInv
<1> QED
  BY <1>2, <1>4, <1>6, <1>7, <1>8, <1>9 DEF QueueInv

LEMMA EnqueuePublicInv ==
    ASSUME QueueInv, queue' = queue, public \in Seq(Tasks), NEW t \in Tasks,
           public' = Append(public, t), state[t] # "queued", state'[t] = "queued",
           \A s \in Tasks : s # t => state'[s] = state[s]
    PROVE  QueueInv' /\ public' \in Seq(Tasks)
<1>1. /\ public' \in Seq(Tasks) /\ ToSet(public') = ToSet(public) \cup {t}
      /\ IsInjective(public) /\ t \notin ToSet(public) => IsInjective(public')
  BY AppendFacts
<1>2. /\ t \notin ToSet(public) /\ \A w \in Workers : t \notin ToSet(queue[w])
      /\ IsInjective(public)
  BY DEF QueueInv
<1>3. /\ \A w \in Workers : \A s \in Tasks : s \in ToSet(queue[w]) => s \notin ToSet(public')
      /\ \A w \in Workers : \A s \in Tasks : s \in ToSet(queue[w]) => state'[s] = "queued"
      /\ \A s \in Tasks : s \in ToSet(public') => state'[s] = "queued"
      /\ \A s \in Tasks : state'[s] = "queued" =>
            s \in ToSet(public') \/ \E w \in Workers : s \in ToSet(queue[w])
  BY <1>1, <1>2 DEF QueueInv
<1> QED
  BY <1>1, <1>2, <1>3 DEF QueueInv

-----------------------------------------------------------------------------
(* The waiters.                                                             *)

\* Without takes w out of a list in which it is at most once.
LEMMA WithoutFacts ==
    ASSUME NEW S, NEW s \in Seq(S), NEW w, IsInjective(s)
    PROVE  /\ Without(s, w) \in Seq(S) /\ IsInjective(Without(s, w))
           /\ ToSet(Without(s, w)) = ToSet(s) \ {w}
<1>1. /\ Len(s) \in Nat /\ DOMAIN s = 1 .. Len(s) /\ \A i \in 1 .. Len(s) : s[i] \in S
      /\ ToSet(s) = {s[i] : i \in 1 .. Len(s)}
      /\ \A i, j \in 1 .. Len(s) : s[i] = s[j] => i = j
  BY LenProperties, ElementOfSeq DEF ToSet, IsInjective
<1>2. CASE ~ \E i \in DOMAIN s : s[i] = w
  <2>1. Without(s, w) = s /\ w \notin ToSet(s)
    BY <1>1, <1>2 DEF Without
  <2> QED
    BY <2>1
<1>3. CASE \E i \in DOMAIN s : s[i] = w
  <2>1. PICK i \in 1 .. Len(s) : s[i] = w
    BY <1>1, <1>3
  <2>2. \A j \in 1 .. i - 1 : s[j] # w
    BY <1>1, <2>1
  <2>3. \A k \in DOMAIN s : s[k] = w => k = i
    BY <1>1, <2>1
  <2>4. Without(s, w) = Front([s EXCEPT ![i] = Last(s)])
    BY <1>1, <1>3, <2>1, <2>2, <2>3 DEF Without
  <2>5. s # <<>> /\ Last(s) = s[Len(s)] /\ Last(s) \in S
    BY <1>1, <2>1, EmptySeq DEF Last
  <2>6. PICK u : u = [s EXCEPT ![i] = Last(s)]
    OBVIOUS
  <2>7. u \in Seq(S) /\ Len(u) = Len(s) /\ \A j \in 1 .. Len(s) : u[j] = IF j = i THEN Last(s) ELSE s[j]
    BY <1>1, <2>1, <2>5, <2>6, ExceptSeq
  <2>8. u # <<>>
    BY <1>1, <2>1, <2>7, EmptySeq
  <2>9. /\ Front(u) \in Seq(S) /\ Len(Front(u)) = Len(s) - 1
        /\ \A j \in 1 .. Len(s) - 1 : Front(u)[j] = u[j]
    BY <2>7, <2>8, FrontFacts
  <2>10. PICK r \in Seq(S) : r = Front(u)
    BY <2>9
  <2>11. /\ DOMAIN r = 1 .. Len(s) - 1
         /\ \A j \in 1 .. Len(s) - 1 : r[j] = IF j = i THEN s[Len(s)] ELSE s[j]
    BY <1>1, <2>5, <2>7, <2>9, <2>10, LenProperties
  <2>12. /\ Len(s) \in 1 .. Len(s) /\ \A j \in 1 .. Len(s) - 1 : j \in 1 .. Len(s) /\ j # Len(s)
         /\ \A j \in 1 .. Len(s) : j \in 1 .. Len(s) - 1 \/ j = Len(s)
    <3>1. Len(s) \in Nat /\ Len(s) # 0
      BY <1>1, <2>1
    <3> QED
      BY <3>1
  <2>13. IsInjective(r)
    BY <1>1, <2>1, <2>11, <2>12 DEF IsInjective
  <2>14. ToSet(r) = ToSet(s) \ {w}
    <3>1. ToSet(r) = {r[j] : j \in 1 .. Len(s) - 1}
      BY <2>11 DEF ToSet
    <3>2. \A j \in 1 .. Len(s) - 1 : r[j] \in ToSet(s) /\ r[j] # w
      BY <1>1, <2>1, <2>11, <2>12
    <3>3. \A j \in 1 .. Len(s) : s[j] # w => \E k \in 1 .. Len(s) - 1 : r[k] = s[j]
      BY <1>1, <2>1, <2>11, <2>12
    <3>4. \A e \in ToSet(s) : e # w => e \in ToSet(r)
      <4> SUFFICES ASSUME NEW e \in ToSet(s), e # w
                   PROVE  e \in ToSet(r)
        OBVIOUS
      <4>1. PICK j \in 1 .. Len(s) : e = s[j]
        BY <1>1
      <4>2. PICK k \in 1 .. Len(s) - 1 : r[k] = s[j]
        BY <3>3, <4>1
      <4> QED
        BY <3>1, <4>1, <4>2
    <3>5. \A e \in ToSet(r) : e \in ToSet(s) /\ e # w
      BY <3>1, <3>2
    <3> QED
      BY <3>4, <3>5
  <2> QED
    BY <2>4, <2>6, <2>10, <2>13, <2>14
<1> QED
  BY <1>2, <1>3

\* WakeOne signals the worker that it takes out of the list.
LEMMA WakeOneFacts ==
    ASSUME waiters \in Seq(Workers), event \in [Threads -> SUBSET {"finished", "available"}],
           IsInjective(waiters), WakeOne
    PROVE  /\ waiters' \in Seq(Workers) /\ IsInjective(waiters')
           /\ event' \in [Threads -> SUBSET {"finished", "available"}]
           /\ ToSet(waiters') \subseteq ToSet(waiters)
           /\ \A p \in Threads : event[p] \subseteq event'[p]
           /\ \A w \in ToSet(waiters) : w \in ToSet(waiters') \/ event'[w] # {}
           /\ waiters # <<>> => \E w \in Workers : w \in ToSet(waiters) /\ event'[w] # {}
<1>1. CASE waiters = <<>>
  BY <1>1 DEF WakeOne, ToSet
<1>2. CASE waiters # <<>>
  <2>1. PICK v \in Workers : v = Last(waiters) /\ v \in ToSet(waiters)
    BY <1>2, FrontFacts
  <2>2. /\ waiters' \in Seq(Workers) /\ IsInjective(waiters')
        /\ ToSet(waiters) = ToSet(waiters') \cup {v}
    BY <1>2, <2>1, FrontFacts DEF WakeOne
  <2>3. event' = [event EXCEPT ![v] = @ \cup {"available"}] /\ v \in Threads
    BY <1>2, <2>1 DEF WakeOne, Signal, Threads
  <2>4. /\ event' \in [Threads -> SUBSET {"finished", "available"}]
        /\ "available" \in event'[v] /\ \A p \in Threads : event[p] \subseteq event'[p]
    BY <2>3
  <2> QED
    BY <2>1, <2>2, <2>4
<1> QED
  BY <1>1, <1>2

LEMMA WakeOneInv ==
    ASSUME PoolInv, WakeOne,
           \A v \in Workers : \A pc \in {"wait", "delist"} : At(v, "loop", pc)' <=> At(v, "loop", pc)
    PROVE  WaitInv'
<1>1. /\ WaitInv /\ IsInjective(waiters) /\ waiters \in Seq(Workers)
      /\ event \in [Threads -> SUBSET {"finished", "available"}]
  BY DEF PoolInv, Types, WaitInv
<1>2. /\ IsInjective(waiters') /\ ToSet(waiters') \subseteq ToSet(waiters)
      /\ \A p \in Threads : event[p] \subseteq event'[p]
      /\ \A w \in ToSet(waiters) : w \in ToSet(waiters') \/ event'[w] # {}
  BY <1>1, WakeOneFacts
<1>3. \A w \in Workers : w \in ToSet(waiters') => At(w, "loop", "wait")' \/ At(w, "loop", "delist")'
  BY <1>1, <1>2 DEF WaitInv, InWaiters
<1>4. \A w \in Workers : Asleep(w)' => w \in ToSet(waiters')
  <2> SUFFICES ASSUME NEW w \in Workers, Asleep(w)'
               PROVE  w \in ToSet(waiters')
    OBVIOUS
  <2>1. At(w, "loop", "wait") /\ event'[w] = {}
    BY DEF Asleep
  <2>2. event[w] = {}
    BY <1>2, <2>1 DEF Threads
  <2>3. w \in ToSet(waiters)
    BY <1>1, <2>1, <2>2 DEF WaitInv, InWaiters, Asleep
  <2> QED
    BY <1>2, <2>1, <2>3
<1> QED
  BY <1>2, <1>3, <1>4 DEF WaitInv, InWaiters

-----------------------------------------------------------------------------
(* The steps of a loop.                                                     *)

LEMMA SameMainInv ==
    ASSUME MainInv, main' = main,
           \A i \in DOMAIN Roots : state[Roots[i]] = "new" => state'[Roots[i]] = "new"
    PROVE  MainInv'
BY DEF MainInv

LEMMA LoopPcFacts ==
    ASSUME NEW f \in FrameType, f.kind = "loop", NEW pc \in LoopPcs, NEW g, g = [f EXCEPT !.pc = pc]
    PROVE  /\ g \in FrameType /\ g.kind = "loop" /\ g.pc = pc /\ g.task = f.task
           /\ pc # "on_finish" \/ f.task # None => FrameFits(g)
<1>1. g \in FrameType /\ g.kind = "loop" /\ g.pc = pc /\ g.task = f.task
  BY DEF FrameType
<1> QED
  BY <1>1 DEF FrameFits

\* The caller that a return leads to.
LEMMA CallerFacts ==
    ASSUME PoolInv, NEW w \in Workers, Active(w), Top(w).task # None, Return(w)
    PROVE  /\ stack' \in [Workers -> Seq(FrameType)] /\ Others(w)
           /\ Busy(w)' /\ Top(w)'.kind \in {"loop", "task"}
           /\ InLoop(w)' => Top(w)'.pc = "check"
<1>1. /\ stack' \in [Workers -> Seq(FrameType)] /\ Others(w)
      /\ Depth(w) \in Nat \ {0} /\ Depth(w) # 1 /\ Active(w)'
      /\ Top(w)' = stack[w][Depth(w) - 1] /\ Top(w)' \in FrameType
  BY AtTop, ReturnFacts
<1>2. PICK d \in Nat, f \in FrameType : d = Depth(w) - 1 /\ f = Top(w)' /\ f = stack[w][d]
  BY <1>1
<1>3. FrameAt(w, d, f) /\ d # Depth(w)
  BY <1>1, <1>2 DEF FrameAt
<1>4. f.pc \in {"check", "result", "unique"} /\ FrameFits(f)
  BY <1>2, <1>3 DEF PoolInv, StackInv
<1>5. f.kind \in {"loop", "task"} /\ (f.kind = "loop" => f.pc = "check")
  BY <1>4 DEF FrameFits, FrameType, LoopPcs
<1> QED
  BY <1>1, <1>2, <1>5 DEF Busy, InLoop

LEMMA LoopCheckInv ==
    ASSUME PoolInv, NEW w \in Workers, LoopCheck(w)
    PROVE  PoolInv'
<1>0. /\ Types /\ QueueInv /\ MainInv
  BY DEF PoolInv
<1>1. /\ Active(w) /\ InLoop(w) /\ Top(w).kind = "loop" /\ Top(w).pc = "check"
      /\ Busy(w) /\ Top(w) \in FrameType
      /\ UNCHANGED <<main, queue, public, lock, waiters, shutdown, left, joined, state, locked, conts>>
  BY AtTop DEF LoopCheck, At, InLoop, Busy, poolVars, taskVars
<1>2. /\ event' \in [Threads -> SUBSET {"finished", "available"}]
      /\ \A v \in Workers : v # w => event'[v] = event[v]
  BY <1>0 DEF LoopCheck, Types, Threads
<1>3. /\ StackInv' /\ FrameInv' /\ KidInv' /\ stack' \in [Workers -> Seq(FrameType)] /\ Others(w)
      /\ Busy(w)' /\ Top(w)'.kind \in {"loop", "task"}
      /\ InLoop(w)' => Top(w)'.pc \in {"check", "pop"}
  <2>1. CASE Return(w) /\ Top(w).task # None
    BY <1>1, <2>1, LoopReturnInv, CallerFacts
  <2>2. CASE Goto(w, [Top(w) EXCEPT !.pc = "pop"])
    <3>1. PICK g : g = [Top(w) EXCEPT !.pc = "pop"]
      OBVIOUS
    <3>2. g \in FrameType /\ g.kind = "loop" /\ g.pc = "pop" /\ g.task = Top(w).task /\ FrameFits(g)
      BY <1>1, <3>1, LoopPcFacts DEF LoopPcs
    <3>3. StackInv' /\ FrameInv' /\ KidInv'
      BY <1>1, <2>2, <3>1, <3>2, LoopGotoInv
    <3>4. /\ stack' \in [Workers -> Seq(FrameType)] /\ Others(w) /\ Active(w)' /\ Top(w)' = g
      BY <1>0, <1>1, <2>2, <3>1, <3>2, GotoFacts DEF Types
    <3> QED
      BY <3>2, <3>3, <3>4 DEF Busy, InLoop
  <2> QED
    BY <2>1, <2>2 DEF LoopCheck
<1>4. WakeInv'
  BY <1>1, <1>2, <1>3, BusyInv DEF FrameType
<1>5. QueueInv' /\ MainInv'
  BY <1>0, <1>1, SameQueuesInv, SameMainInv
<1>6. Types'
  BY <1>0, <1>1, <1>2, <1>3 DEF Types
<1> QED
  BY <1>3, <1>4, <1>5, <1>6 DEF PoolInv, WakeInv

\* A loop runs the task that it has taken out of a queue.
LEMMA LoopRunInv ==
    ASSUME PoolInv, NEW w \in Workers, InLoop(w), Busy(w), NEW t \in Tasks,
           state[t] = "queued", Run(w, t),
           UNCHANGED <<main, lock, waiters, shutdown, left, joined, event>>,
           queue' \in [Workers -> Seq(Tasks)], public' \in Seq(Tasks),
           public = <<>> => public' = <<>>,
           \A v \in Workers : queue[v] = <<>> => queue'[v] = <<>>,
           state'[t] # "queued" /\ (\A s \in Tasks : s # t => state'[s] = state[s]) => QueueInv'
    PROVE  PoolInv'
<1>0. /\ Types /\ MainInv
  BY DEF PoolInv
<1>1. /\ StackInv' /\ FrameInv' /\ KidInv'
      /\ stack' \in [Workers -> Seq(FrameType)] /\ Others(w)
      /\ Active(w)' /\ Top(w)' = TaskFrame(t)
      /\ state'[t] = "running" /\ \A s \in Tasks : s # t => state'[s] = state[s]
      /\ state' \in [Tasks -> {"new", "queued", "running", "completed", "released"}]
      /\ locked' = locked /\ conts' = conts
  BY RunInv DEF Run
<1>2. Top(w)'.kind = "task" /\ Busy(w)' /\ ~ InLoop(w)'
  BY <1>1 DEF TaskFrame, Busy, InLoop
<1>3. Top(w).kind = "loop"
  BY DEF InLoop
<1>4. WakeInv'
  BY <1>1, <1>2, <1>3, BusyInv
<1>5. QueueInv'
  BY <1>1
<1>6. MainInv'
  <2>1. \A s \in Tasks : state[s] = "new" => state'[s] = "new"
    BY <1>1
  <2>2. \A i \in DOMAIN Roots : Roots[i] \in Tasks
    BY ThreadPoolAssumption, ElementOfSeq, LenProperties
  <2> QED
    BY <1>0, <2>1, <2>2, SameMainInv
<1>7. Types'
  BY <1>0, <1>1 DEF Types
<1> QED
  BY <1>1, <1>4, <1>5, <1>6, <1>7 DEF PoolInv, WakeInv

LEMMA LoopPopInv ==
    ASSUME PoolInv, NEW w \in Workers, LoopPop(w)
    PROVE  PoolInv'
<1>0. /\ Types /\ QueueInv /\ MainInv
  BY DEF PoolInv
<1>1. /\ Active(w) /\ InLoop(w) /\ Top(w).kind = "loop" /\ Top(w).pc = "pop"
      /\ Busy(w) /\ Top(w) \in FrameType
      /\ UNCHANGED <<main, public, lock, waiters, shutdown, left, joined, event>>
  BY AtTop DEF LoopPop, At, InLoop, Busy, poolVars
<1>2. CASE queue[w] # <<>>
  <2>1. PICK t \in Tasks, q \in Seq(Tasks) : t = Last(queue[w]) /\ q = Front(queue[w])
    BY <1>0, <1>2, FrontFacts DEF Types
  <2>2. /\ ToSet(queue[w]) = ToSet(q) \cup {t}
        /\ IsInjective(queue[w]) => IsInjective(q) /\ t \notin ToSet(q)
        /\ t \in ToSet(queue[w])
    BY <1>0, <1>2, <2>1, FrontFacts DEF Types
  <2>3. IsInjective(q) /\ t \notin ToSet(q) /\ state[t] = "queued"
    BY <1>0, <2>2 DEF QueueInv
  <2>4. /\ Run(w, t) /\ queue' = [queue EXCEPT ![w] = q]
    BY <1>2, <2>1 DEF LoopPop
  <2>5. queue' \in [Workers -> Seq(Tasks)]
    BY <1>0, <2>4 DEF Types
  <2>6. /\ \A v \in Workers : queue[v] = <<>> => queue'[v] = <<>>
        /\ public' \in Seq(Tasks) /\ public' = public
    BY <1>0, <1>1, <1>2, <2>4 DEF Types
  <2>7. state'[t] # "queued" /\ (\A s \in Tasks : s # t => state'[s] = state[s]) => QueueInv'
    BY <1>0, <1>1, <2>2, <2>3, <2>4, DequeueInv DEF Types
  <2> QED
    BY <1>1, <2>3, <2>4, <2>5, <2>6, <2>7, LoopRunInv
<1>3. CASE queue[w] = <<>>
  <2>1. PICK g : g = [Top(w) EXCEPT !.pc = "steal", !.victims = Workers \ {w}]
    OBVIOUS
  <2>2. g \in FrameType /\ g.kind = "loop" /\ g.pc = "steal" /\ g.task = Top(w).task
    BY <1>1, <2>1 DEF FrameType, LoopPcs
  <2>3. FrameFits(g)
    BY <2>2 DEF FrameFits, LoopPcs
  <2>4. /\ Goto(w, g) /\ queue' = queue /\ state' = state /\ locked' = locked /\ conts' = conts
    BY <1>3, <2>1 DEF LoopPop, taskVars
  <2>5. StackInv' /\ FrameInv' /\ KidInv'
    BY <1>1, <2>2, <2>3, <2>4, LoopGotoInv
  <2>6. /\ stack' \in [Workers -> Seq(FrameType)] /\ Others(w) /\ Active(w)' /\ Top(w)' = g
    BY <1>0, <1>1, <2>2, <2>4, GotoFacts DEF Types
  <2>7. Busy(w)' /\ Top(w)'.kind = "loop"
    BY <2>2, <2>6 DEF Busy
  <2>8. WakeInv'
    BY <1>1, <1>3, <2>4, <2>6, <2>7, BusyInv
  <2>9. QueueInv' /\ MainInv'
    BY <1>0, <1>1, <2>4, SameQueuesInv, SameMainInv
  <2>10. Types'
    BY <1>0, <1>1, <2>4, <2>6 DEF Types
  <2> QED
    BY <2>5, <2>8, <2>9, <2>10 DEF PoolInv, WakeInv
<1> QED
  BY <1>2, <1>3

LEMMA LoopStealInv ==
    ASSUME PoolInv, NEW w \in Workers, LoopSteal(w)
    PROVE  PoolInv'
<1>0. /\ Types /\ QueueInv /\ MainInv /\ IdleInv
  BY DEF PoolInv
<1>1. /\ Active(w) /\ InLoop(w) /\ Top(w).kind = "loop" /\ Top(w).pc = "steal"
      /\ Busy(w) /\ Top(w) \in FrameType
      /\ UNCHANGED <<main, public, lock, waiters, shutdown, left, joined, event>>
  BY AtTop DEF LoopSteal, At, InLoop, Busy, poolVars
<1>2. PICK v \in Top(w).victims :
         IF queue[v] # <<>>
         THEN /\ Run(w, Head(queue[v]))
              /\ queue' = [queue EXCEPT ![v] = Tail(@)]
         ELSE /\ Goto(w, [Top(w) EXCEPT !.victims = @ \ {v}])
              /\ UNCHANGED <<queue, taskVars>>
  BY DEF LoopSteal
<1>3. v \in Workers
  BY <1>1 DEF FrameType
<1>4. CASE queue[v] # <<>>
  <2>1. PICK t \in Tasks, q \in Seq(Tasks) : t = Head(queue[v]) /\ q = Tail(queue[v])
    BY <1>0, <1>3, <1>4, TailFacts DEF Types
  <2>2. /\ ToSet(queue[v]) = ToSet(q) \cup {t}
        /\ IsInjective(queue[v]) => IsInjective(q) /\ t \notin ToSet(q)
        /\ t \in ToSet(queue[v])
    BY <1>0, <1>3, <1>4, <2>1, TailFacts DEF Types
  <2>3. IsInjective(q) /\ t \notin ToSet(q) /\ state[t] = "queued"
    BY <1>0, <1>3, <2>2 DEF QueueInv
  <2>4. /\ Run(w, t) /\ queue' = [queue EXCEPT ![v] = q]
    BY <1>2, <1>4, <2>1
  <2>5. queue' \in [Workers -> Seq(Tasks)]
    BY <1>0, <2>4 DEF Types
  <2>6. /\ \A u \in Workers : queue[u] = <<>> => queue'[u] = <<>>
        /\ public' \in Seq(Tasks) /\ public' = public
    BY <1>0, <1>1, <1>4, <2>4 DEF Types
  <2>7. state'[t] # "queued" /\ (\A s \in Tasks : s # t => state'[s] = state[s]) => QueueInv'
    BY <1>0, <1>1, <1>3, <2>2, <2>3, <2>4, DequeueInv DEF Types
  <2> QED
    BY <1>1, <2>3, <2>4, <2>5, <2>6, <2>7, LoopRunInv
<1>5. CASE queue[v] = <<>>
  <2>1. PICK g : g = [Top(w) EXCEPT !.victims = @ \ {v}]
    OBVIOUS
  <2>2. g \in FrameType /\ g.kind = "loop" /\ g.pc = "steal" /\ g.task = Top(w).task
    BY <1>1, <2>1 DEF FrameType
  <2>3. FrameFits(g)
    BY <2>2 DEF FrameFits, LoopPcs
  <2>4. /\ Goto(w, g) /\ queue' = queue /\ state' = state /\ locked' = locked /\ conts' = conts
    BY <1>2, <1>5, <2>1 DEF taskVars
  <2>5. StackInv' /\ FrameInv' /\ KidInv'
    BY <1>1, <2>2, <2>3, <2>4, LoopGotoInv
  <2>6. /\ stack' \in [Workers -> Seq(FrameType)] /\ Others(w) /\ Active(w)' /\ Top(w)' = g
    BY <1>0, <1>1, <2>2, <2>4, GotoFacts DEF Types
  <2>7. Busy(w)' /\ Top(w)'.kind = "loop" /\ queue'[w] = <<>>
    BY <1>0, <1>1, <2>2, <2>4, <2>6 DEF Busy, IdleInv
  <2>8. WakeInv'
    BY <1>1, <2>4, <2>6, <2>7, BusyInv
  <2>9. QueueInv' /\ MainInv'
    BY <1>0, <1>1, <2>4, SameQueuesInv, SameMainInv
  <2>10. Types'
    BY <1>0, <1>1, <2>4, <2>6 DEF Types
  <2> QED
    BY <2>5, <2>8, <2>9, <2>10 DEF PoolInv, WakeInv
<1> QED
  BY <1>4, <1>5

\* Worker w stays in the pool; the queues stay as they are.
LEMMA StayInv ==
    ASSUME PoolInv, NEW w \in Workers, Others(w), Active(w), Active(w)',
           UNCHANGED <<main, queue, public, shutdown, left, joined>>,
           InLoop(w)' /\ Top(w)'.pc \notin {"check", "pop"} => queue[w] = <<>>
    PROVE  IdleInv' /\ EndInv'
<1>0. IdleInv /\ EndInv
  BY DEF PoolInv
<1>1. \A v \in Workers : v # w =>
         (Active(v)' <=> Active(v)) /\ Top(v)' = Top(v) /\ (InLoop(v)' <=> InLoop(v))
  BY OtherFrames
<1>2. IdleInv'
  BY <1>0, <1>1 DEF IdleInv
<1>3. Present' = Present
  BY <1>1 DEF Present
<1> QED
  BY <1>0, <1>2, <1>3 DEF EndInv

LEMMA LoopLockInv ==
    ASSUME PoolInv, NEW w \in Workers, LoopLock(w)
    PROVE  PoolInv'
<1>0. /\ Types /\ StackInv /\ QueueInv /\ MainInv
      /\ LockInv /\ WaitInv /\ IdleInv /\ WorkInv /\ EndInv
  BY DEF PoolInv
<1>1. /\ Active(w) /\ InLoop(w) /\ Top(w).kind = "loop" /\ Top(w).pc = "steal"
      /\ Busy(w) /\ Top(w) \in FrameType /\ lock = None
      /\ Depth(w) = 1 <=> Top(w).task = None
      /\ UNCHANGED <<main, queue, waiters, shutdown, event>>
  BY AtTop DEF LoopLock, At, InLoop, Busy
<1>2. /\ queue[w] = <<>> /\ ~ InWaiters(w)
      /\ \A v \in Workers : ~ At(v, "loop", "on_finish") /\ ~ At(v, "loop", "enlist")
  <2>1. \A v \in Workers : v # None
    BY ThreadPoolAssumption
  <2> QED
    BY <1>0, <1>1, <2>1 DEF IdleInv, WaitInv, LockInv, At
<1>3. CASE public # <<>> /\ Run(w, Head(public)) /\ public' = Tail(public)
           /\ UNCHANGED <<lock, left, joined>>
  <2>1. PICK t \in Tasks : t = Head(public)
    BY <1>0, <1>3, TailFacts DEF Types
  <2>2. /\ ToSet(public) = ToSet(public') \cup {t} /\ public' \in Seq(Tasks)
        /\ IsInjective(public) => IsInjective(public') /\ t \notin ToSet(public')
        /\ t \in ToSet(public)
    BY <1>0, <1>3, <2>1, TailFacts DEF Types
  <2>3. IsInjective(public') /\ t \notin ToSet(public') /\ state[t] = "queued"
    BY <1>0, <2>2 DEF QueueInv
  <2>4. queue' \in [Workers -> Seq(Tasks)]
    BY <1>0, <1>1 DEF Types
  <2>5. state'[t] # "queued" /\ (\A s \in Tasks : s # t => state'[s] = state[s]) => QueueInv'
    BY <1>0, <1>1, <2>2, <2>3, DequeuePublicInv
  <2>6. Run(w, t)
    BY <1>3, <2>1
  <2> QED
    BY <1>1, <1>3, <2>2, <2>3, <2>4, <2>5, <2>6, LoopRunInv
<1>4. CASE /\ public = <<>> /\ Top(w).task = None /\ shutdown
           /\ Return(w)
           /\ left' = left - 1
           /\ joined' = (joined \/ left = 1)
           /\ UNCHANGED <<public, lock, taskVars>>
  <2>1. /\ StackInv' /\ FrameInv' /\ KidInv'
    BY <1>1, <1>4, LoopReturnInv DEF taskVars
  <2>2. /\ stack' \in [Workers -> Seq(FrameType)] /\ Others(w) /\ ~ Active(w)'
    BY <1>0, <1>1, <1>4, ReturnFacts DEF Types
  <2>3. \A v \in Workers : v # w =>
           /\ (Active(v)' <=> Active(v)) /\ Top(v)' = Top(v) /\ (InLoop(v)' <=> InLoop(v))
           /\ \A kind, pc : At(v, kind, pc)' <=> At(v, kind, pc)
    BY <2>2, OtherFrames
  <2>4. ~ InLoop(w)' /\ ~ Asleep(w)' /\ \A pc : ~ At(w, "loop", pc)'
    BY <2>2 DEF InLoop, Asleep, At
  <2>5. LockInv'
    BY <1>1, <1>2, <1>4, <2>3, <2>4 DEF LockInv
  <2>6. WaitInv'
    <3>1. \A v \in Workers : Asleep(v)' => Asleep(v)
      BY <1>1, <2>3, <2>4 DEF Asleep
    <3> QED
      BY <1>0, <1>1, <1>2, <2>3, <3>1 DEF WaitInv, InWaiters
  <2>7. IdleInv'
    BY <1>0, <1>1, <1>2, <1>4, <2>2, <2>3, <2>4 DEF IdleInv
  <2>8. WorkInv'
    BY <1>4 DEF WorkInv
  <2>9. EndInv'
    <3>1. Present' = Present \ {w} /\ w \in Present
      BY <1>1, <2>2, <2>3 DEF Present
    <3>2. IsFiniteSet(Present)
      BY ThreadPoolAssumption, FS_Subset DEF Present
    <3>3. /\ IsFiniteSet(Present \ {w})
          /\ Cardinality(Present \ {w}) = Cardinality(Present) - 1
          /\ Cardinality(Present \ {w}) = 0 <=> Present \ {w} = {}
      BY <3>1, <3>2, FS_RemoveElement, FS_EmptySet
    <3>4. left = Cardinality(Present) /\ ~ joined
      BY <1>0, <1>4, <3>1 DEF EndInv
    <3>a. left' = Cardinality(Present')
      BY <1>4, <3>1, <3>3, <3>4
    <3>b. joined' => left = 1
      BY <1>4, <3>4
    <3>c. left = 1 => Cardinality(Present \ {w}) = 0
      BY <3>3, <3>4
    <3>5. left' = Cardinality(Present') /\ (joined' => Present' = {})
      BY <3>1, <3>3, <3>a, <3>b, <3>c
    <3> QED
      BY <1>0, <1>1, <1>4, <3>4, <3>5 DEF EndInv
  <2>10. QueueInv' /\ MainInv'
    BY <1>0, <1>1, <1>4, SameQueuesInv, SameMainInv DEF taskVars
  <2>11. Types'
    BY <1>0, <1>1, <1>4, <2>2 DEF Types, taskVars
  <2> QED
    BY <2>1, <2>5, <2>6, <2>7, <2>8, <2>9, <2>10, <2>11 DEF PoolInv
<1>5. CASE /\ public = <<>>
           /\ Goto(w, [Top(w) EXCEPT !.pc = IF Top(w).task # None /\ ~ Top(w).added
                                            THEN "on_finish" ELSE "enlist"])
           /\ lock' = w
           /\ UNCHANGED <<public, left, joined, taskVars>>
  <2>1. PICK pc \in {"on_finish", "enlist"} :
           pc = IF Top(w).task # None /\ ~ Top(w).added THEN "on_finish" ELSE "enlist"
    OBVIOUS
  <2>2. PICK g : g = [Top(w) EXCEPT !.pc = pc]
    OBVIOUS
  <2>3. g \in FrameType /\ g.kind = "loop" /\ g.pc = pc /\ g.task = Top(w).task /\ FrameFits(g)
    BY <1>1, <2>1, <2>2, LoopPcFacts DEF LoopPcs
  <2>4. Goto(w, g) /\ state' = state /\ locked' = locked /\ conts' = conts
    BY <1>5, <2>1, <2>2 DEF taskVars
  <2>5. StackInv' /\ FrameInv' /\ KidInv'
    BY <1>1, <2>3, <2>4, LoopGotoInv
  <2>6. /\ stack' \in [Workers -> Seq(FrameType)] /\ Others(w) /\ Active(w)' /\ Top(w)' = g
    BY <1>0, <1>1, <2>3, <2>4, GotoFacts DEF Types
  <2>7. \A v \in Workers : v # w => \A kind, p : At(v, kind, p)' <=> At(v, kind, p)
    BY <2>6, OtherFrames
  <2>8. LockInv'
    BY <1>2, <1>5, <2>7 DEF LockInv
  <2>9. WaitInv'
    <3>1. ~ Asleep(w)'
      BY <2>3, <2>6 DEF Asleep, At
    <3>2. \A v \in Workers : Asleep(v)' => Asleep(v)
      BY <1>1, <2>7, <3>1 DEF Asleep
    <3> QED
      BY <1>0, <1>1, <1>2, <2>7, <3>2 DEF WaitInv, InWaiters
  <2>10. IdleInv' /\ EndInv'
    BY <1>1, <1>2, <1>5, <2>6, StayInv
  <2>11. WorkInv'
    BY <1>5 DEF WorkInv
  <2>12. QueueInv' /\ MainInv'
    BY <1>0, <1>1, <1>5, <2>4, SameQueuesInv, SameMainInv
  <2>13. Types'
    BY <1>0, <1>1, <1>5, <2>4, <2>6 DEF Types
  <2> QED
    BY <2>5, <2>8, <2>9, <2>10, <2>11, <2>12, <2>13 DEF PoolInv
<1> QED
  BY <1>3, <1>4, <1>5 DEF LoopLock

\* The continuation is added, or has run at once.
LEMMA OnFinishFacts ==
    ASSUME Types, NEW t \in Tasks, NEW p \in Threads, OnFinish(t, p)
    PROVE  /\ event' \in [Threads -> SUBSET {"finished", "available"}]
           /\ conts' \in [Tasks -> Seq(Threads)]
           /\ \A q \in Threads : event[q] \subseteq event'[q]
           /\ \A q \in Threads : q # p => event'[q] = event[q]
<1>0. /\ event \in [Threads -> SUBSET {"finished", "available"}]
      /\ conts \in [Tasks -> Seq(Threads)]
  BY DEF Types
<1>1. CASE conts' = [conts EXCEPT ![t] = Append(@, p)] /\ UNCHANGED event
  <2>1. Append(conts[t], p) \in Seq(Threads)
    BY <1>0, AppendFacts
  <2> QED
    BY <1>0, <1>1, <2>1
<1>2. CASE Signal(p, "finished") /\ UNCHANGED conts
  BY <1>0, <1>2 DEF Signal
<1> QED
  BY <1>1, <1>2 DEF OnFinish

LEMMA LoopOnFinishInv ==
    ASSUME PoolInv, NEW w \in Workers, LoopOnFinish(w)
    PROVE  PoolInv'
<1>0. /\ Types /\ QueueInv /\ MainInv /\ LockInv /\ WaitInv /\ IdleInv
  BY DEF PoolInv
<1>1. /\ Active(w) /\ InLoop(w) /\ Top(w).kind = "loop" /\ Top(w).pc = "on_finish"
      /\ Top(w) \in FrameType /\ Top(w).task \in Tasks
      /\ UNCHANGED <<main, queue, public, lock, waiters, shutdown, left, joined, state, locked>>
  BY AtTop DEF LoopOnFinish, At, InLoop, poolVars, FrameFits, FrameType
<1>2. lock = w /\ w # None /\ public = <<>> /\ queue[w] = <<>> /\ ~ InWaiters(w)
  BY <1>0, <1>1, ThreadPoolAssumption DEF LockInv, WaitInv, IdleInv, At
<1>3. /\ event' \in [Threads -> SUBSET {"finished", "available"}]
      /\ conts' \in [Tasks -> Seq(Threads)]
      /\ \A v \in Workers : v # w => event'[v] = event[v]
  <2>1. w \in Threads /\ \A v \in Workers : v \in Threads
    BY DEF Threads
  <2>2. PICK t \in Tasks : t = Top(w).task
    BY <1>1
  <2>3. OnFinish(t, w)
    BY <2>2 DEF LoopOnFinish
  <2>4. /\ event' \in [Threads -> SUBSET {"finished", "available"}]
        /\ conts' \in [Tasks -> Seq(Threads)]
        /\ \A q \in Threads : q # w => event'[q] = event[q]
    BY <1>0, <2>1, <2>3, OnFinishFacts
  <2> QED
    BY <2>1, <2>4
<1>4. PICK g : g = [Top(w) EXCEPT !.pc = "enlist", !.added = TRUE]
  OBVIOUS
<1>5. g \in FrameType /\ g.kind = "loop" /\ g.pc = "enlist" /\ g.task = Top(w).task
  BY <1>1, <1>4 DEF FrameType, LoopPcs
<1>6. FrameFits(g) /\ Goto(w, g)
  BY <1>4, <1>5 DEF FrameFits, LoopPcs, LoopOnFinish
<1>7. StackInv' /\ FrameInv' /\ KidInv'
  BY <1>1, <1>5, <1>6, LoopGotoInv
<1>8. /\ stack' \in [Workers -> Seq(FrameType)] /\ Others(w) /\ Active(w)' /\ Top(w)' = g
  BY <1>0, <1>1, <1>5, <1>6, GotoFacts DEF Types
<1>9. \A v \in Workers : v # w => \A kind, p : At(v, kind, p)' <=> At(v, kind, p)
  BY <1>8, OtherFrames
<1>10. LockInv'
  BY <1>0, <1>1, <1>2, <1>9 DEF LockInv
<1>11. WaitInv'
  <2>1. ~ Asleep(w)'
    BY <1>5, <1>8 DEF Asleep, At
  <2>2. \A v \in Workers : Asleep(v)' => Asleep(v)
    BY <1>3, <1>9, <2>1 DEF Asleep
  <2> QED
    BY <1>0, <1>1, <1>2, <1>9, <2>2 DEF WaitInv, InWaiters
<1>12. IdleInv' /\ EndInv'
  BY <1>1, <1>2, <1>8, StayInv
<1>13. WorkInv'
  BY <1>1, <1>2 DEF WorkInv
<1>14. QueueInv' /\ MainInv'
  BY <1>0, <1>1, SameQueuesInv, SameMainInv
<1>15. Types'
  BY <1>0, <1>1, <1>3, <1>8 DEF Types
<1> QED
  BY <1>7, <1>10, <1>11, <1>12, <1>13, <1>14, <1>15 DEF PoolInv

LEMMA LoopEnlistInv ==
    ASSUME PoolInv, NEW w \in Workers, LoopEnlist(w)
    PROVE  PoolInv'
<1>0. /\ Types /\ QueueInv /\ MainInv /\ LockInv /\ WaitInv /\ IdleInv
  BY DEF PoolInv
<1>1. /\ Active(w) /\ InLoop(w) /\ Top(w).kind = "loop" /\ Top(w).pc = "enlist"
      /\ Top(w) \in FrameType
      /\ UNCHANGED <<main, queue, public, shutdown, left, joined, event, state, locked, conts>>
      /\ lock' = None /\ waiters' = Append(waiters, w)
  BY AtTop DEF LoopEnlist, At, InLoop, taskVars
<1>2. lock = w /\ w # None /\ public = <<>> /\ queue[w] = <<>> /\ ~ InWaiters(w)
  BY <1>0, <1>1, ThreadPoolAssumption DEF LockInv, WaitInv, IdleInv, At
<1>3. /\ waiters' \in Seq(Workers) /\ IsInjective(waiters')
      /\ ToSet(waiters') = ToSet(waiters) \cup {w}
  BY <1>0, <1>1, <1>2, AppendFacts DEF Types, WaitInv, InWaiters
<1>4. PICK g : g = [Top(w) EXCEPT !.pc = "wait"]
  OBVIOUS
<1>5. g \in FrameType /\ g.kind = "loop" /\ g.pc = "wait" /\ g.task = Top(w).task /\ FrameFits(g)
  BY <1>1, <1>4, LoopPcFacts DEF LoopPcs
<1>6. Goto(w, g)
  BY <1>4 DEF LoopEnlist
<1>7. StackInv' /\ FrameInv' /\ KidInv'
  BY <1>1, <1>5, <1>6, LoopGotoInv
<1>8. /\ stack' \in [Workers -> Seq(FrameType)] /\ Others(w) /\ Active(w)' /\ Top(w)' = g
  BY <1>0, <1>1, <1>5, <1>6, GotoFacts DEF Types
<1>9. \A v \in Workers : v # w => \A kind, p : At(v, kind, p)' <=> At(v, kind, p)
  BY <1>8, OtherFrames
<1>10. LockInv'
  <2>1. \A v \in Workers : v # w => ~ At(v, "loop", "on_finish") /\ ~ At(v, "loop", "enlist")
    BY <1>0, <1>2 DEF LockInv
  <2>2. ~ At(w, "loop", "on_finish")' /\ ~ At(w, "loop", "enlist")'
    BY <1>5, <1>8 DEF At
  <2> QED
    BY <1>1, <1>9, <2>1, <2>2 DEF LockInv
<1>11. WaitInv'
  <2>1. At(w, "loop", "wait")'
    BY <1>5, <1>8 DEF At
  <2>2. \A v \in Workers : v # w => (Asleep(v)' <=> Asleep(v))
    BY <1>1, <1>9 DEF Asleep
  <2>3. \A v \in Workers : v \in ToSet(waiters') => At(v, "loop", "wait")' \/ At(v, "loop", "delist")'
    BY <1>0, <1>3, <1>9, <2>1 DEF WaitInv, InWaiters
  <2>4. \A v \in Workers : Asleep(v)' => v \in ToSet(waiters')
    BY <1>0, <1>3, <2>2 DEF WaitInv, InWaiters
  <2> QED
    BY <1>3, <2>3, <2>4 DEF WaitInv, InWaiters
<1>12. IdleInv' /\ EndInv'
  BY <1>1, <1>2, <1>8, StayInv
<1>13. WorkInv'
  BY <1>1, <1>2 DEF WorkInv
<1>14. QueueInv' /\ MainInv'
  BY <1>0, <1>1, SameQueuesInv, SameMainInv
<1>15. Types'
  BY <1>0, <1>1, <1>3, <1>8 DEF Types
<1> QED
  BY <1>7, <1>10, <1>11, <1>12, <1>13, <1>14, <1>15 DEF PoolInv

LEMMA LoopWaitInv ==
    ASSUME PoolInv, NEW w \in Workers, LoopWait(w)
    PROVE  PoolInv'
<1>0. /\ Types /\ QueueInv /\ MainInv /\ LockInv /\ WaitInv /\ IdleInv /\ WorkInv
  BY DEF PoolInv
<1>1. /\ Active(w) /\ InLoop(w) /\ Top(w).kind = "loop" /\ Top(w).pc = "wait"
      /\ Top(w) \in FrameType
      /\ UNCHANGED <<main, queue, public, lock, waiters, shutdown, left, joined, state, locked, conts>>
      /\ event' = [event EXCEPT ![w] = {}]
  BY AtTop DEF LoopWait, At, InLoop, poolVars, taskVars
<1>2. queue[w] = <<>>
  BY <1>0, <1>1 DEF IdleInv
<1>3. /\ event' \in [Threads -> SUBSET {"finished", "available"}]
      /\ \A v \in Workers : v # w => event'[v] = event[v]
  BY <1>0, <1>1 DEF Types, Threads
<1>4. PICK g : g = [Top(w) EXCEPT !.pc = "delist"]
  OBVIOUS
<1>5. g \in FrameType /\ g.kind = "loop" /\ g.pc = "delist" /\ g.task = Top(w).task /\ FrameFits(g)
  BY <1>1, <1>4, LoopPcFacts DEF LoopPcs
<1>6. Goto(w, g)
  BY <1>4 DEF LoopWait
<1>7. StackInv' /\ FrameInv' /\ KidInv'
  BY <1>1, <1>5, <1>6, LoopGotoInv
<1>8. /\ stack' \in [Workers -> Seq(FrameType)] /\ Others(w) /\ Active(w)' /\ Top(w)' = g
  BY <1>0, <1>1, <1>5, <1>6, GotoFacts DEF Types
<1>9. \A v \in Workers : v # w => \A kind, p : At(v, kind, p)' <=> At(v, kind, p)
  BY <1>8, OtherFrames
<1>a. /\ At(w, "loop", "delist")' /\ ~ Asleep(w)'
      /\ ~ At(w, "loop", "on_finish")' /\ ~ At(w, "loop", "enlist")'
  BY <1>5, <1>8 DEF At, Asleep
<1>10. LockInv'
  BY <1>0, <1>1, <1>9, <1>a DEF LockInv
<1>11. WaitInv'
  <2>1. \A v \in Workers : Asleep(v)' => Asleep(v)
    BY <1>3, <1>9, <1>a DEF Asleep
  <2> QED
    BY <1>0, <1>1, <1>9, <1>a, <2>1 DEF WaitInv, InWaiters
<1>12. IdleInv' /\ EndInv'
  BY <1>1, <1>2, <1>8, StayInv
<1>13. WorkInv'
  BY <1>8, <1>a DEF WorkInv
<1>14. QueueInv' /\ MainInv'
  BY <1>0, <1>1, SameQueuesInv, SameMainInv
<1>15. Types'
  BY <1>0, <1>1, <1>3, <1>8 DEF Types
<1> QED
  BY <1>7, <1>10, <1>11, <1>12, <1>13, <1>14, <1>15 DEF PoolInv

LEMMA LoopDelistInv ==
    ASSUME PoolInv, NEW w \in Workers, LoopDelist(w)
    PROVE  PoolInv'
<1>0. /\ Types /\ QueueInv /\ MainInv /\ LockInv /\ WaitInv /\ IdleInv
  BY DEF PoolInv
<1>1. /\ Active(w) /\ InLoop(w) /\ Top(w).kind = "loop" /\ Top(w).pc = "delist"
      /\ Top(w) \in FrameType /\ lock = None
      /\ UNCHANGED <<main, queue, public, lock, shutdown, left, joined, event, state, locked, conts>>
      /\ waiters' = Without(waiters, w)
  BY AtTop DEF LoopDelist, At, InLoop, taskVars
<1>2. queue[w] = <<>>
  BY <1>0, <1>1 DEF IdleInv
<1>3. /\ waiters' \in Seq(Workers) /\ IsInjective(waiters')
      /\ ToSet(waiters') = ToSet(waiters) \ {w}
  BY <1>0, <1>1, WithoutFacts DEF Types, WaitInv
<1>4. /\ StackInv' /\ FrameInv' /\ KidInv' /\ stack' \in [Workers -> Seq(FrameType)] /\ Others(w)
      /\ Busy(w)' /\ Top(w)'.kind \in {"loop", "task"}
  <2>1. CASE Return(w) /\ Top(w).task # None
    BY <1>1, <2>1, LoopReturnInv, CallerFacts
  <2>2. CASE Goto(w, [Top(w) EXCEPT !.pc = "steal", !.victims = Workers \ {w}])
    <3>1. PICK g : g = [Top(w) EXCEPT !.pc = "steal", !.victims = Workers \ {w}]
      OBVIOUS
    <3>2. g \in FrameType /\ g.kind = "loop" /\ g.pc = "steal" /\ g.task = Top(w).task
      BY <1>1, <3>1 DEF FrameType, LoopPcs
    <3>3. FrameFits(g)
      BY <3>2 DEF FrameFits, LoopPcs
    <3>4. StackInv' /\ FrameInv' /\ KidInv'
      BY <1>1, <2>2, <3>1, <3>2, <3>3, LoopGotoInv
    <3>5. /\ stack' \in [Workers -> Seq(FrameType)] /\ Others(w) /\ Active(w)' /\ Top(w)' = g
      BY <1>0, <1>1, <2>2, <3>1, <3>2, GotoFacts DEF Types
    <3> QED
      BY <3>2, <3>4, <3>5 DEF Busy
  <2> QED
    BY <2>1, <2>2 DEF LoopDelist
<1>5. \A v \in Workers : v # w => \A kind, p : At(v, kind, p)' <=> At(v, kind, p)
  BY <1>4, OtherFrames
<1>6. /\ Active(w)' /\ ~ Asleep(w)'
      /\ \A pc \in {"on_finish", "enlist", "wait", "delist"} : ~ At(w, "loop", pc)'
  BY <1>4 DEF Busy, At, Asleep
<1>7. LockInv'
  BY <1>0, <1>1, <1>5, <1>6 DEF LockInv
<1>8. WaitInv'
  <2>1. \A v \in Workers : Asleep(v)' => Asleep(v) /\ v # w
    BY <1>1, <1>5, <1>6 DEF Asleep
  <2>2. \A v \in Workers : v \in ToSet(waiters') => At(v, "loop", "wait")' \/ At(v, "loop", "delist")'
    BY <1>0, <1>3, <1>5 DEF WaitInv, InWaiters
  <2>3. \A v \in Workers : Asleep(v)' => v \in ToSet(waiters')
    BY <1>0, <1>3, <2>1 DEF WaitInv, InWaiters
  <2> QED
    BY <1>3, <2>2, <2>3 DEF WaitInv, InWaiters
<1>9. IdleInv' /\ EndInv'
  BY <1>1, <1>2, <1>4, <1>6, StayInv
<1>10. WorkInv'
  BY <1>6 DEF WorkInv
<1>11. QueueInv' /\ MainInv'
  BY <1>0, <1>1, SameQueuesInv, SameMainInv
<1>12. Types'
  BY <1>0, <1>1, <1>3, <1>4 DEF Types
<1> QED
  BY <1>4, <1>7, <1>8, <1>9, <1>10, <1>11, <1>12 DEF PoolInv

-----------------------------------------------------------------------------
(* The steps of a task.                                                     *)

LEMMA KidFacts ==
    /\ \A t \in Tasks : Len(Kids[t]) \in Nat /\ DOMAIN Kids[t] = 1 .. Len(Kids[t])
    /\ \A t \in Tasks : \A k \in DOMAIN Kids[t] : Kids[t][k] \in Tasks
    /\ \A i \in DOMAIN Roots : Roots[i] \in Tasks
    /\ Len(Roots) \in Nat /\ DOMAIN Roots = 1 .. Len(Roots)
BY ThreadPoolAssumption, ElementOfSeq, LenProperties

\* A frame of a task that is elsewhere in its function.
LEMMA TaskPcFacts ==
    ASSUME NEW f \in FrameType, f.kind = "task", NEW pc \in TaskPcs,
           NEW g, g = [f EXCEPT !.pc = pc]
    PROVE  /\ g \in FrameType /\ g.kind = "task" /\ g.pc = pc /\ g.n = f.n /\ g.task = f.task
           /\ FrameFits(g)
<1>1. pc \in LoopPcs \cup TaskPcs
  OBVIOUS
<1>2. g \in FrameType /\ g.kind = "task" /\ g.pc = pc /\ g.n = f.n /\ g.task = f.task
  BY <1>1 DEF FrameType
<1> QED
  BY <1>2 DEF FrameFits, TaskPcs

\* A step to another place in the task's function.
LEMMA TaskStepInv ==
    ASSUME PoolInv, NEW w \in Workers, Active(w), Top(w).kind = "task",
           NEW g \in FrameType, Goto(w, g), g.kind = "task", g.task = Top(w).task,
           FrameFits(g), Progress(g),
           g.pc \in {"lock", "flush"} <=> Top(w).pc \in {"lock", "flush"},
           UNCHANGED <<main, queue, public, poolVars, event, state, conts>>,
           locked' \in [Tasks -> BOOLEAN]
    PROVE  PoolInv'
<1>0. Types /\ QueueInv /\ MainInv
  BY DEF PoolInv
<1>1. StackInv' /\ FrameInv' /\ KidInv'
  BY TaskGotoInv
<1>2. /\ stack' \in [Workers -> Seq(FrameType)] /\ Others(w) /\ Active(w)' /\ Top(w)' = g
  BY <1>0, GotoFacts DEF Types
<1>3. Busy(w) /\ Busy(w)' /\ ~ InLoop(w)' /\ Top(w)'.kind = "task"
  BY <1>2 DEF Busy, InLoop
<1>4. WakeInv'
  BY <1>2, <1>3, BusyInv DEF poolVars
<1>5. QueueInv' /\ MainInv'
  BY <1>0, SameQueuesInv, SameMainInv
<1>6. Types'
  BY <1>0, <1>2 DEF Types, poolVars
<1> QED
  BY <1>1, <1>4, <1>5, <1>6 DEF PoolInv, WakeInv

\* A call of thread_task_loop to wait for subtask t.
LEMMA TaskCallStepInv ==
    ASSUME PoolInv, NEW w \in Workers, Active(w), Top(w).kind = "task",
           Top(w).pc \notin {"lock", "flush"},
           NEW g \in FrameType, NEW t \in Tasks, Call(w, g, LoopFrame(t)),
           g.kind = "task", g.task = Top(w).task, g.pc \in {"result", "unique"}, Progress(g),
           UNCHANGED <<main, queue, public, poolVars, event, taskVars>>
    PROVE  PoolInv'
<1>0. Types /\ QueueInv /\ MainInv
  BY DEF PoolInv
<1>a. UNCHANGED <<lock, waiters, shutdown, left, joined, state, locked, conts>>
  BY DEF poolVars, taskVars
<1>1. /\ StackInv' /\ FrameInv' /\ KidInv'
      /\ stack' \in [Workers -> Seq(FrameType)] /\ Others(w)
      /\ Active(w)' /\ Top(w)' = LoopFrame(t)
  BY <1>a, TaskCallInv
<1>2. Top(w)'.kind = "loop" /\ Top(w)'.pc = "check"
  BY <1>1 DEF LoopFrame
<1>3. Busy(w) /\ Busy(w)'
  BY <1>1, <1>2 DEF Busy
<1>4. WakeInv'
  BY <1>a, <1>1, <1>2, <1>3, BusyInv
<1>5. QueueInv' /\ MainInv'
  BY <1>0, <1>a, SameQueuesInv, SameMainInv
<1>6. Types'
  BY <1>0, <1>a, <1>1 DEF Types
<1> QED
  BY <1>1, <1>4, <1>5, <1>6 DEF PoolInv, WakeInv

LEMMA TaskPeekInv ==
    ASSUME PoolInv, NEW w \in Workers, TaskPeek(w)
    PROVE  PoolInv'
<1>1. /\ Active(w) /\ Top(w).kind = "task" /\ Top(w).pc = "peek"
      /\ Top(w) \in FrameType /\ Top(w).task \in Tasks /\ Progress(Top(w))
      /\ UNCHANGED <<main, queue, public, poolVars, event, state, conts>>
      /\ locked' \in [Tasks -> BOOLEAN]
  BY AtTop DEF TaskPeek, At, taskVars, PoolInv, Types
<1>2. PICK g : /\ g = IF waiters = <<>> THEN [Top(w) EXCEPT !.pc = "spawn", !.n = @ + 1]
                                        ELSE [Top(w) EXCEPT !.pc = "wake"]
               /\ Goto(w, g)
  BY DEF TaskPeek
<1>3. /\ Top(w).n \in 1 .. Len(Kids[Top(w).task]) /\ Fresh(Top(w).task, Top(w).n + 1)
      /\ Top(w).n \in Int /\ Top(w).n + 1 \in 1 .. Len(Kids[Top(w).task]) + 1
  BY <1>1, KidFacts DEF Progress
<1>4. PICK pc \in {"spawn", "wake"}, m \in Int :
         /\ g \in FrameType /\ g.kind = "task" /\ g.pc = pc /\ g.n = m /\ g.task = Top(w).task
         /\ FrameFits(g)
         /\ pc = "spawn" => m = Top(w).n + 1
         /\ pc = "wake" => m = Top(w).n
  <2>1. CASE waiters = <<>>
    <3>1. PICK m \in Int : m = Top(w).n + 1
      BY <1>3
    <3>2. g = [Top(w) EXCEPT !.pc = "spawn", !.n = m]
      BY <1>2, <2>1, <3>1
    <3>3. "spawn" \in LoopPcs \cup TaskPcs
      BY DEF TaskPcs
    <3>4. g \in FrameType /\ g.kind = "task" /\ g.pc = "spawn" /\ g.n = m /\ g.task = Top(w).task
      BY <1>1, <3>2, <3>3 DEF FrameType
    <3>5. FrameFits(g)
      BY <3>4 DEF FrameFits, TaskPcs
    <3> QED
      BY <3>1, <3>4, <3>5
  <2>2. CASE waiters # <<>>
    <3>1. g = [Top(w) EXCEPT !.pc = "wake"]
      BY <1>2, <2>2
    <3> QED
      BY <1>1, <1>3, <3>1, TaskPcFacts DEF TaskPcs
  <2> QED
    BY <2>1, <2>2
<1>5. Progress(g)
  BY <1>3, <1>4 DEF Progress
<1> QED
  BY <1>1, <1>2, <1>4, <1>5, TaskStepInv

LEMMA TaskGetInv ==
    ASSUME PoolInv, NEW w \in Workers, TaskGet(w)
    PROVE  PoolInv'
<1>1. /\ Active(w) /\ Top(w).kind = "task" /\ Top(w).pc = "get"
      /\ Top(w) \in FrameType /\ Top(w).task \in Tasks /\ Progress(Top(w))
      /\ UNCHANGED <<main, queue, public, poolVars, event, taskVars, state, conts>>
      /\ locked' \in [Tasks -> BOOLEAN]
  BY AtTop DEF TaskGet, At, taskVars, PoolInv, Types
<1>2. Top(w).n \in 0 .. Len(Kids[Top(w).task]) /\ Done(Top(w).task, Top(w).n) /\ Top(w).n \in Int
  BY <1>1, KidFacts DEF Progress
<1>3. CASE Top(w).n = 0
  <2>1. PICK g : g = [Top(w) EXCEPT !.pc = "finish"] /\ Goto(w, g)
    BY <1>3 DEF TaskGet
  <2>2. /\ g \in FrameType /\ g.kind = "task" /\ g.pc = "finish" /\ g.n = 0
        /\ g.task = Top(w).task /\ FrameFits(g)
    BY <1>1, <1>3, <2>1, TaskPcFacts DEF TaskPcs
  <2>3. Progress(g)
    BY <1>2, <1>3, <2>2 DEF Progress
  <2> QED
    BY <1>1, <2>1, <2>2, <2>3, TaskStepInv
<1>4. CASE Top(w).n # 0
  <2>1. PICK g : /\ g = [Top(w) EXCEPT !.pc = "result"]
                 /\ Goto(w, g) \/ Call(w, g, LoopFrame(Kid(Top(w))))
    BY <1>4 DEF TaskGet
  <2>2. /\ g \in FrameType /\ g.kind = "task" /\ g.pc = "result" /\ g.n = Top(w).n
        /\ g.task = Top(w).task /\ FrameFits(g)
    BY <1>1, <1>2, <2>1, TaskPcFacts DEF TaskPcs
  <2>3. Progress(g)
    BY <1>2, <1>4, <2>2 DEF Progress
  <2>4. Kid(Top(w)) \in Tasks
    BY <1>1, <1>2, <1>4, KidFacts DEF Kid
  <2>5. CASE Goto(w, g)
    BY <1>1, <2>2, <2>3, <2>5, TaskStepInv
  <2>6. CASE Call(w, g, LoopFrame(Kid(Top(w))))
    BY <1>1, <2>2, <2>3, <2>4, <2>6, TaskCallStepInv
  <2> QED
    BY <2>1, <2>5, <2>6
<1> QED
  BY <1>3, <1>4

LEMMA TaskResultInv ==
    ASSUME PoolInv, NEW w \in Workers, TaskResult(w)
    PROVE  PoolInv'
<1>1. /\ Active(w) /\ Top(w).kind = "task" /\ Top(w).pc = "result"
      /\ Top(w) \in FrameType /\ Top(w).task \in Tasks /\ Progress(Top(w))
      /\ UNCHANGED <<main, queue, public, poolVars, event, taskVars, state, conts>>
      /\ locked' \in [Tasks -> BOOLEAN]
  BY AtTop DEF TaskResult, At, taskVars, PoolInv, Types
<1>2. /\ Top(w).n \in 0 .. Len(Kids[Top(w).task]) /\ Done(Top(w).task, Top(w).n)
      /\ Top(w).n \in Int /\ Top(w).n # 0
  BY <1>1, KidFacts DEF Progress
<1>3. PICK g : /\ g = [Top(w) EXCEPT !.pc = "unique"]
               /\ Goto(w, g) \/ Call(w, g, LoopFrame(Kid(Top(w))))
  BY DEF TaskResult
<1>4. /\ g \in FrameType /\ g.kind = "task" /\ g.pc = "unique" /\ g.n = Top(w).n
      /\ g.task = Top(w).task /\ FrameFits(g)
  BY <1>1, <1>2, <1>3, TaskPcFacts DEF TaskPcs
<1>5. Progress(g)
  BY <1>2, <1>4 DEF Progress
<1>6. Kid(Top(w)) \in Tasks
  BY <1>1, <1>2, KidFacts DEF Kid
<1>7. CASE Goto(w, g)
  BY <1>1, <1>4, <1>5, <1>7, TaskStepInv
<1>8. CASE Call(w, g, LoopFrame(Kid(Top(w))))
  BY <1>1, <1>4, <1>5, <1>6, <1>8, TaskCallStepInv
<1> QED
  BY <1>3, <1>7, <1>8

LEMMA TaskUniqueInv ==
    ASSUME PoolInv, NEW w \in Workers, TaskUnique(w)
    PROVE  PoolInv'
<1>1. /\ Active(w) /\ Top(w).kind = "task" /\ Top(w).pc = "unique"
      /\ Top(w) \in FrameType /\ Top(w).task \in Tasks /\ Progress(Top(w))
      /\ UNCHANGED <<main, queue, public, poolVars, event, state, conts>>
      /\ locked' \in [Tasks -> BOOLEAN]
      /\ state[Kid(Top(w))] = "released"
  BY AtTop DEF TaskUnique, At, taskVars, PoolInv, Types
<1>2. /\ Top(w).n \in 0 .. Len(Kids[Top(w).task]) /\ Done(Top(w).task, Top(w).n)
      /\ Top(w).n \in Int /\ Top(w).n # 0
  BY <1>1, KidFacts DEF Progress
<1>3. PICK m \in Int : m = Top(w).n - 1 /\ m \in 0 .. Len(Kids[Top(w).task])
  BY <1>1, <1>2, KidFacts
<1>4. PICK g : g = [Top(w) EXCEPT !.pc = "get", !.n = m] /\ Goto(w, g)
  BY <1>3 DEF TaskUnique
<1>5. /\ g \in FrameType /\ g.kind = "task" /\ g.pc = "get" /\ g.n = m
      /\ g.task = Top(w).task /\ FrameFits(g)
  <2>1. "get" \in LoopPcs \cup TaskPcs
    BY DEF TaskPcs
  <2>2. g \in FrameType /\ g.kind = "task" /\ g.pc = "get" /\ g.n = m /\ g.task = Top(w).task
    BY <1>1, <1>4, <2>1 DEF FrameType
  <2> QED
    BY <2>2 DEF FrameFits, TaskPcs
<1>6. Done(Top(w).task, m)
  <2> SUFFICES ASSUME NEW k \in DOMAIN Kids[Top(w).task], k > m
               PROVE  state[Kids[Top(w).task][k]] = "released"
    BY DEF Done
  <2>1. k \in Int /\ (k = Top(w).n \/ k > Top(w).n)
    BY <1>1, <1>2, <1>3, KidFacts
  <2>2. CASE k = Top(w).n
    BY <1>1, <2>2 DEF Kid
  <2>3. CASE k > Top(w).n
    BY <1>2, <2>3 DEF Done
  <2> QED
    BY <2>1, <2>2, <2>3
<1>7. Progress(g)
  BY <1>3, <1>5, <1>6 DEF Progress
<1> QED
  BY <1>1, <1>4, <1>5, <1>7, TaskStepInv

LEMMA TaskLockInv ==
    ASSUME PoolInv, NEW w \in Workers, TaskLock(w)
    PROVE  PoolInv'
<1>1. /\ Active(w) /\ Top(w).kind = "task" /\ Top(w).pc = "lock"
      /\ Top(w) \in FrameType /\ Top(w).task \in Tasks /\ Progress(Top(w))
      /\ UNCHANGED <<main, queue, public, poolVars, event, state, conts>>
      /\ locked' \in [Tasks -> BOOLEAN]
  BY AtTop DEF TaskLock, At, PoolInv, Types
<1>2. PICK g : g = [Top(w) EXCEPT !.pc = "flush"] /\ Goto(w, g)
  BY DEF TaskLock
<1>3. Top(w).n = 0 /\ Done(Top(w).task, 0) /\ Top(w).n \in Int
  BY <1>1 DEF Progress
<1>4. /\ g \in FrameType /\ g.kind = "task" /\ g.pc = "flush" /\ g.n = 0
      /\ g.task = Top(w).task /\ FrameFits(g)
  BY <1>1, <1>2, <1>3, TaskPcFacts DEF TaskPcs
<1>5. Progress(g)
  BY <1>3, <1>4 DEF Progress
<1> QED
  BY <1>1, <1>2, <1>4, <1>5, TaskStepInv

\* The continuations of a task signal events, and change nothing else.
LEMMA TaskFlushInv ==
    ASSUME PoolInv, NEW w \in Workers, TaskFlush(w)
    PROVE  PoolInv'
<1>0. Types /\ StackInv /\ QueueInv /\ FrameInv /\ KidInv /\ MainInv
  BY DEF PoolInv
<1>1. /\ Top(w).task \in Tasks
      /\ UNCHANGED <<stack, main, queue, public, lock, waiters, shutdown, left, joined, state, locked>>
  BY AtTop DEF TaskFlush, At, poolVars
<1>2. PICK t \in Tasks, s \in Seq(Threads) : t = Top(w).task /\ s = conts[t] /\ s # <<>>
  BY <1>0, <1>1 DEF TaskFlush, Types
<1>3. Head(s) \in Threads /\ Tail(s) \in Seq(Threads)
  BY <1>2, TailFacts
<1>4. /\ conts' \in [Tasks -> Seq(Threads)]
      /\ event' \in [Threads -> SUBSET {"finished", "available"}]
      /\ \A p \in Threads : event[p] \subseteq event'[p]
  BY <1>0, <1>2, <1>3 DEF TaskFlush, Signal, Types
<1>5. WakeInv'
  BY <1>1, <1>4, StillInv DEF Threads
<1>6. QueueInv' /\ MainInv'
  BY <1>0, <1>1, SameQueuesInv, SameMainInv
<1>7. FrameInv' /\ KidInv'
  BY <1>0, <1>1, SameRunsInv DEF Runs, FrameAt, Depth
<1>8. StackInv'
  BY <1>0, <1>1 DEF StackInv, FrameAt, Depth
<1>9. Types'
  BY <1>0, <1>1, <1>4 DEF Types
<1> QED
  BY <1>5, <1>6, <1>7, <1>8, <1>9 DEF PoolInv, WakeInv

\* What is said of the subtasks' states stays true while none that is new or
\* released changes.
LEMMA SteadyProgress ==
    ASSUME \A s \in Tasks : state[s] = "new" => state'[s] = "new",
           \A s \in Tasks : state[s] = "released" => state'[s] = "released"
    PROVE  /\ \A s \in Tasks : \A n : (Fresh(s, n) => Fresh(s, n)') /\ (Done(s, n) => Done(s, n)')
           /\ \A h \in FrameType : h.task \in Tasks /\ Progress(h) => Progress(h)'
<1>1. \A s \in Tasks : \A n : (Fresh(s, n) => Fresh(s, n)') /\ (Done(s, n) => Done(s, n)')
  BY KidFacts DEF Fresh, Done
<1> QED
  BY <1>1 DEF Progress

\* The tasks of the frames are tasks.
LEMMA RunTasks ==
    ASSUME StackInv
    PROVE  \A v \in Workers, i \in Nat, h \in FrameType : Runs(v, i, h) => h.task \in Tasks
BY DEF StackInv, Runs, FrameType

LEMMA TaskFinishInv ==
    ASSUME PoolInv, NEW w \in Workers, TaskFinish(w)
    PROVE  PoolInv'
<1>0. Types /\ StackInv /\ QueueInv /\ FrameInv /\ KidInv /\ MainInv
  BY DEF PoolInv
<1>1. /\ Active(w) /\ Top(w).kind = "task" /\ Top(w).pc = "finish"
      /\ Top(w) \in FrameType /\ Top(w).task \in Tasks /\ Progress(Top(w))
      /\ Depth(w) \in Nat /\ Depth(w) # 1 /\ FrameAt(w, Depth(w), Top(w))
      /\ UNCHANGED <<main, queue, public, lock, waiters, shutdown, left, joined, event, locked, conts>>
  BY AtTop DEF TaskFinish, At, poolVars
<1>2. PICK g : g = [Top(w) EXCEPT !.pc = "lock"] /\ Goto(w, g)
  BY DEF TaskFinish
<1>3. Top(w).n = 0 /\ Done(Top(w).task, 0)
  BY <1>1 DEF Progress
<1>4. /\ g \in FrameType /\ g.kind = "task" /\ g.pc = "lock" /\ g.n = 0
      /\ g.task = Top(w).task /\ FrameFits(g)
  BY <1>1, <1>2, <1>3, TaskPcFacts DEF TaskPcs
<1>5. PICK t \in Tasks : t = Top(w).task
  BY <1>1
<1>6. /\ state[t] = "running" /\ state'[t] = "completed"
      /\ \A s \in Tasks : s # t => state'[s] = state[s]
      /\ state' \in [Tasks -> {"new", "queued", "running", "completed", "released"}]
  <2>1. state[t] = "running"
    BY <1>1, <1>5, AtTop
  <2>2. state' = [state EXCEPT ![t] = "completed"]
    BY <1>5 DEF TaskFinish
  <2> QED
    BY <1>0, <2>1, <2>2 DEF Types
<1>7. /\ stack' \in [Workers -> Seq(FrameType)] /\ Others(w) /\ Active(w)' /\ Top(w)' = g
  BY <1>0, <1>1, <1>2, <1>4, GotoFacts DEF Types
<1>8. \A v \in Workers, i \in Nat : \A h : FrameAt(v, i, h)' <=>
         IF v = w /\ i = Depth(w) THEN h = g ELSE FrameAt(v, i, h)
  <2>1. \A i \in Nat : \A h : FrameAt(w, i, h)' <=> IF i = Depth(w) THEN h = g ELSE FrameAt(w, i, h)
    BY <1>0, <1>1, <1>2, <1>4, GotoFrames DEF Types
  <2>2. \A v \in Workers : v # w => \A i \in Nat : \A h : FrameAt(v, i, h)' <=> FrameAt(v, i, h)
    BY <1>7, OtherFrames
  <2> QED
    BY <2>1, <2>2
<1>9. \A v \in Workers : Depth(v)' = Depth(v)
  BY <1>0, <1>1, <1>2, <1>4, <1>7, GotoFrames, OtherFrames DEF Types
<1>10. StackInv'
  BY <1>0, <1>1, <1>4, <1>8, <1>9, ThreadPoolAssumption DEF StackInv
<1>11. PICK d \in Nat, f \in FrameType : d = Depth(w) /\ f = Top(w) /\ Runs(w, d, f)
  BY <1>1 DEF Runs
<1>12. /\ \A v \in Workers, i \in Nat, h \in FrameType : Runs(v, i, h)' <=>
             IF v = w /\ i = d THEN h = g ELSE Runs(v, i, h)
       /\ \A v \in Workers, i \in Nat, h \in FrameType :
             Runs(v, i, h) => h.task \in Tasks /\ (h.task = t => v = w /\ i = d)
  <2>1. \A v \in Workers, i \in Nat, h \in FrameType : Runs(v, i, h)' <=>
           IF v = w /\ i = d THEN h = g ELSE Runs(v, i, h)
    BY <1>4, <1>8, <1>11 DEF Runs
  <2>2. \A v \in Workers, i \in Nat, h \in FrameType : Runs(v, i, h) => (h.task = t => v = w /\ i = d)
    BY <1>0, <1>5, <1>11 DEF FrameInv
  <2> QED
    BY <1>0, <2>1, <2>2, RunTasks
<1>13. FrameInv'
  <2>1. \A v, u \in Workers : \A i, j \in Nat : \A h, k \in FrameType :
           Runs(v, i, h)' /\ Runs(u, j, k)' /\ h.task = k.task => v = u /\ i = j
    BY <1>0, <1>4, <1>5, <1>12 DEF FrameInv
  <2>2. \A v \in Workers, i \in Nat, h \in FrameType : Runs(v, i, h)' =>
           state'[h.task] = IF h.pc \in {"lock", "flush"} THEN "completed" ELSE "running"
    BY <1>0, <1>4, <1>5, <1>6, <1>12 DEF FrameInv
  <2>3. \A s \in Tasks : state'[s] \in {"running", "completed"} =>
           \E v \in Workers, i \in Nat, h \in FrameType : Runs(v, i, h)' /\ h.task = s
    <3> SUFFICES ASSUME NEW s \in Tasks, state'[s] \in {"running", "completed"}
                 PROVE  \E v \in Workers, i \in Nat, h \in FrameType : Runs(v, i, h)' /\ h.task = s
      OBVIOUS
    <3>1. CASE s = t
      <4>1. Runs(w, d, g)' /\ g.task = s
        BY <1>4, <1>5, <1>12, <3>1
      <4> QED
        BY <1>4, <4>1
    <3>2. CASE s # t
      <4>1. PICK v \in Workers, i \in Nat, h \in FrameType : Runs(v, i, h) /\ h.task = s
        BY <1>0, <1>6, <3>2 DEF FrameInv
      <4>2. ~ (v = w /\ i = d)
        BY <1>5, <1>11, <3>2, <4>1 DEF Runs, FrameAt
      <4>3. Runs(v, i, h)'
        BY <1>12, <4>1, <4>2
      <4> QED
        BY <4>1, <4>3
    <3> QED
      BY <3>1, <3>2
  <2> QED
    BY <2>1, <2>2, <2>3 DEF FrameInv
<1>14. /\ \A s \in Tasks : \A n : (Fresh(s, n) => Fresh(s, n)') /\ (Done(s, n) => Done(s, n)')
       /\ \A h \in FrameType : h.task \in Tasks /\ Progress(h) => Progress(h)'
  BY <1>6, SteadyProgress
<1>15. KidInv'
  <2>1. Progress(g)
    BY <1>3, <1>4 DEF Progress
  <2>2. \A v \in Workers, i \in Nat, h \in FrameType : Runs(v, i, h)' => Progress(h)'
    BY <1>0, <1>1, <1>4, <1>12, <1>14, <2>1 DEF KidInv
  <2>3. \A s \in Tasks : state'[s] \in {"new", "queued"} => Fresh(s, 1)'
    BY <1>0, <1>6, <1>14 DEF KidInv
  <2>4. \A s \in Tasks : state'[s] = "released" => Done(s, 0)'
    BY <1>0, <1>6, <1>14 DEF KidInv
  <2> QED
    BY <2>2, <2>3, <2>4 DEF KidInv
<1>16. Busy(w) /\ Busy(w)' /\ ~ InLoop(w)' /\ Top(w)'.kind = "task"
  BY <1>1, <1>4, <1>7 DEF Busy, InLoop
<1>17. WakeInv'
  BY <1>1, <1>7, <1>16, BusyInv
<1>18. QueueInv' /\ MainInv'
  <2>1. \A i \in DOMAIN Roots : state[Roots[i]] = "new" => state'[Roots[i]] = "new"
    BY <1>6, KidFacts
  <2>2. \A s \in Tasks : state'[s] = "queued" <=> state[s] = "queued"
    BY <1>6
  <2> QED
    BY <1>0, <1>1, <2>1, <2>2, SameQueuesInv, SameMainInv
<1>19. Types'
  BY <1>0, <1>1, <1>6, <1>7 DEF Types
<1> QED
  BY <1>10, <1>13, <1>15, <1>17, <1>18, <1>19 DEF PoolInv, WakeInv

LEMMA TaskReleaseInv ==
    ASSUME PoolInv, NEW w \in Workers, TaskRelease(w)
    PROVE  PoolInv'
<1>0. Types /\ StackInv /\ QueueInv /\ FrameInv /\ KidInv /\ MainInv
  BY DEF PoolInv
<1>1. /\ Active(w) /\ Top(w).kind = "task" /\ Top(w).pc = "flush"
      /\ Top(w) \in FrameType /\ Top(w).task \in Tasks /\ Progress(Top(w))
      /\ Depth(w) \in Nat /\ Depth(w) # 1 /\ FrameAt(w, Depth(w), Top(w))
      /\ UNCHANGED <<main, queue, public, lock, waiters, shutdown, left, joined, event, locked, conts>>
      /\ Return(w)
  BY AtTop DEF TaskRelease, At, poolVars
<1>2. Top(w).task # None
  BY <1>1, ThreadPoolAssumption
<1>3. Top(w).n = 0 /\ Done(Top(w).task, 0)
  BY <1>1 DEF Progress
<1>5. PICK t \in Tasks : t = Top(w).task
  BY <1>1
<1>6. /\ state[t] = "completed" /\ state'[t] = "released"
      /\ \A s \in Tasks : s # t => state'[s] = state[s]
      /\ state' \in [Tasks -> {"new", "queued", "running", "completed", "released"}]
  <2>1. state[t] = "completed"
    BY <1>1, <1>5, AtTop
  <2>2. state' = [state EXCEPT ![t] = "released"]
    BY <1>5 DEF TaskRelease
  <2> QED
    BY <1>0, <2>1, <2>2 DEF Types
<1>7. /\ stack' \in [Workers -> Seq(FrameType)] /\ Others(w)
      /\ Busy(w)' /\ Top(w)'.kind \in {"loop", "task"}
      /\ InLoop(w)' => Top(w)'.pc = "check"
  BY <1>1, <1>2, CallerFacts
<1>8. \A v \in Workers, i \in Nat : \A h : FrameAt(v, i, h)' <=>
         ~ (v = w /\ i = Depth(w)) /\ FrameAt(v, i, h)
  BY <1>0, <1>1, <1>7, ReturnFrames, OtherFrames DEF Types
<1>9. /\ \A v \in Workers : v # w => Depth(v)' = Depth(v)
      /\ Depth(w)' = Depth(w) - 1
  BY <1>0, <1>1, <1>7, ReturnFrames, OtherFrames DEF Types
<1>10. StackInv'
  BY <1>0, <1>1, <1>8, <1>9 DEF StackInv
<1>11. PICK d \in Nat, f \in FrameType : d = Depth(w) /\ f = Top(w) /\ Runs(w, d, f)
  BY <1>1 DEF Runs
<1>12. /\ \A v \in Workers, i \in Nat, h \in FrameType : Runs(v, i, h)' <=>
             ~ (v = w /\ i = d) /\ Runs(v, i, h)
       /\ \A v \in Workers, i \in Nat, h \in FrameType :
             Runs(v, i, h) => h.task \in Tasks /\ (h.task = t => v = w /\ i = d)
  <2>1. \A v \in Workers, i \in Nat, h \in FrameType : Runs(v, i, h)' <=>
           ~ (v = w /\ i = d) /\ Runs(v, i, h)
    BY <1>8, <1>11 DEF Runs
  <2>2. \A v \in Workers, i \in Nat, h \in FrameType : Runs(v, i, h) => (h.task = t => v = w /\ i = d)
    BY <1>0, <1>5, <1>11 DEF FrameInv
  <2> QED
    BY <1>0, <2>1, <2>2, RunTasks
<1>13. FrameInv'
  <2>1. \A v, u \in Workers : \A i, j \in Nat : \A h, k \in FrameType :
           Runs(v, i, h)' /\ Runs(u, j, k)' /\ h.task = k.task => v = u /\ i = j
    BY <1>0, <1>12 DEF FrameInv
  <2>2. \A v \in Workers, i \in Nat, h \in FrameType : Runs(v, i, h)' =>
           state'[h.task] = IF h.pc \in {"lock", "flush"} THEN "completed" ELSE "running"
    BY <1>0, <1>6, <1>12 DEF FrameInv
  <2>3. \A s \in Tasks : state'[s] \in {"running", "completed"} =>
           \E v \in Workers, i \in Nat, h \in FrameType : Runs(v, i, h)' /\ h.task = s
    <3> SUFFICES ASSUME NEW s \in Tasks, state'[s] \in {"running", "completed"}
                 PROVE  \E v \in Workers, i \in Nat, h \in FrameType : Runs(v, i, h)' /\ h.task = s
      OBVIOUS
    <3>1. s # t
      BY <1>6
    <3>2. PICK v \in Workers, i \in Nat, h \in FrameType : Runs(v, i, h) /\ h.task = s
      BY <1>0, <1>6, <3>1 DEF FrameInv
    <3>3. ~ (v = w /\ i = d)
      BY <1>5, <1>11, <3>1, <3>2 DEF Runs, FrameAt
    <3>4. Runs(v, i, h)'
      BY <1>12, <3>2, <3>3
    <3> QED
      BY <3>2, <3>4
  <2> QED
    BY <2>1, <2>2, <2>3 DEF FrameInv
<1>14. /\ \A s \in Tasks : \A n : (Fresh(s, n) => Fresh(s, n)') /\ (Done(s, n) => Done(s, n)')
       /\ \A h \in FrameType : h.task \in Tasks /\ Progress(h) => Progress(h)'
  BY <1>6, SteadyProgress
<1>15. KidInv'
  <2>2. \A v \in Workers, i \in Nat, h \in FrameType : Runs(v, i, h)' => Progress(h)'
    BY <1>0, <1>12, <1>14 DEF KidInv
  <2>3. \A s \in Tasks : state'[s] \in {"new", "queued"} => Fresh(s, 1)'
    BY <1>0, <1>6, <1>14 DEF KidInv
  <2>4. \A s \in Tasks : state'[s] = "released" => Done(s, 0)'
    BY <1>0, <1>3, <1>5, <1>6, <1>14 DEF KidInv
  <2> QED
    BY <2>2, <2>3, <2>4 DEF KidInv
<1>16. Busy(w)
  BY <1>1 DEF Busy
<1>17. WakeInv'
  BY <1>1, <1>7, <1>16, BusyInv
<1>18. QueueInv' /\ MainInv'
  <2>1. \A i \in DOMAIN Roots : state[Roots[i]] = "new" => state'[Roots[i]] = "new"
    BY <1>6, KidFacts
  <2>2. \A s \in Tasks : state'[s] = "queued" <=> state[s] = "queued"
    BY <1>6
  <2> QED
    BY <1>0, <1>1, <2>1, <2>2, SameQueuesInv, SameMainInv
<1>19. Types'
  BY <1>0, <1>1, <1>6, <1>7 DEF Types
<1> QED
  BY <1>10, <1>13, <1>15, <1>17, <1>18, <1>19 DEF PoolInv, WakeInv

LEMMA TaskWakeInv ==
    ASSUME PoolInv, NEW w \in Workers, TaskWake(w)
    PROVE  PoolInv'
<1>0. Types /\ QueueInv /\ MainInv /\ LockInv /\ WaitInv
  BY DEF PoolInv
<1>1. /\ Active(w) /\ Top(w).kind = "task" /\ Top(w).pc = "wake"
      /\ Top(w) \in FrameType /\ Top(w).task \in Tasks /\ Progress(Top(w))
      /\ UNCHANGED <<main, queue, public, lock, shutdown, left, joined, state, locked, conts>>
      /\ WakeOne
  BY AtTop DEF TaskWake, At, taskVars
<1>2. /\ Top(w).n \in 1 .. Len(Kids[Top(w).task]) /\ Fresh(Top(w).task, Top(w).n + 1)
      /\ Top(w).n \in Int /\ Top(w).n + 1 \in 1 .. Len(Kids[Top(w).task]) + 1
  BY <1>1, KidFacts DEF Progress
<1>3. PICK m \in Int : m = Top(w).n + 1
  BY <1>2
<1>4. PICK g : g = [Top(w) EXCEPT !.pc = "spawn", !.n = m] /\ Goto(w, g)
  BY <1>3 DEF TaskWake
<1>5. g \in FrameType /\ g.kind = "task" /\ g.pc = "spawn" /\ g.n = m /\ g.task = Top(w).task
  <2>1. "spawn" \in LoopPcs \cup TaskPcs
    BY DEF TaskPcs
  <2> QED
    BY <1>1, <1>4, <2>1 DEF FrameType
<1>6. FrameFits(g)
  BY <1>5 DEF FrameFits, TaskPcs
<1>7. Progress(g)
  BY <1>2, <1>3, <1>5 DEF Progress
<1>8. StackInv' /\ FrameInv' /\ KidInv'
  BY <1>1, <1>4, <1>5, <1>6, <1>7, TaskGotoInv
<1>9. /\ stack' \in [Workers -> Seq(FrameType)] /\ Others(w) /\ Active(w)' /\ Top(w)' = g
  BY <1>0, <1>1, <1>4, <1>5, GotoFacts DEF Types
<1>10. /\ \A kind, p : \A v \in Workers : v # w => (At(v, kind, p)' <=> At(v, kind, p))
       /\ \A p : ~ At(w, "loop", p) /\ ~ At(w, "loop", p)'
       /\ ~ InLoop(w)' /\ ~ Asleep(w)'
  BY <1>1, <1>5, <1>9, OtherFrames DEF At, InLoop, Asleep
<1>11. WaitInv'
  BY <1>1, <1>10, WakeOneInv
<1>12. LockInv'
  BY <1>0, <1>1, <1>10 DEF LockInv
<1>13. IdleInv' /\ EndInv'
  BY <1>1, <1>9, <1>10, StayInv
<1>14. WorkInv'
  BY <1>9, <1>10 DEF WorkInv
<1>15. QueueInv' /\ MainInv'
  BY <1>0, <1>1, SameQueuesInv, SameMainInv
<1>16. /\ waiters' \in Seq(Workers)
       /\ event' \in [Threads -> SUBSET {"finished", "available"}]
  BY <1>0, <1>1, WakeOneFacts DEF Types, WaitInv
<1>17. Types'
  BY <1>0, <1>1, <1>9, <1>16 DEF Types
<1> QED
  BY <1>8, <1>11, <1>12, <1>13, <1>14, <1>15, <1>17 DEF PoolInv

\* A subtask is spawned by one task, in one place.
LEMMA OneParent ==
    \A s, t \in Tasks : \A i \in DOMAIN Kids[s], j \in DOMAIN Kids[t] :
       Kids[s][i] = Kids[t][j] => s = t /\ i = j
BY ThreadPoolAssumption

LEMMA TaskSpawnInv ==
    ASSUME PoolInv, NEW w \in Workers, TaskSpawn(w)
    PROVE  PoolInv'
<1>0. Types /\ StackInv /\ QueueInv /\ FrameInv /\ KidInv /\ MainInv
  BY DEF PoolInv
<1>1. /\ Active(w) /\ Top(w).kind = "task" /\ Top(w).pc = "spawn"
      /\ Top(w) \in FrameType /\ Top(w).task \in Tasks /\ Progress(Top(w))
      /\ Depth(w) \in Nat /\ Depth(w) # 1 /\ FrameAt(w, Depth(w), Top(w))
      /\ UNCHANGED <<main, public, poolVars, lock, waiters, shutdown, left, joined, event, locked, conts>>
  BY AtTop DEF TaskSpawn, At, poolVars
<1>2. PICK p \in Tasks, n \in Int : p = Top(w).task /\ n = Top(w).n
  BY <1>1 DEF FrameType
<1>3. n \in 1 .. Len(Kids[p]) + 1 /\ Fresh(p, n) /\ state[p] = "running"
  BY <1>1, <1>2, AtTop DEF Progress
<1>4. CASE ~ (n <= Len(Kids[p]))
  <2>1. PICK g : g = [Top(w) EXCEPT !.pc = "get", !.n = @ - 1] /\ Goto(w, g)
    BY <1>2, <1>4 DEF TaskSpawn
  <2>2. g \in FrameType /\ g.kind = "task" /\ g.pc = "get" /\ g.n = n - 1 /\ g.task = p
    <3>1. "get" \in LoopPcs \cup TaskPcs
      BY DEF TaskPcs
    <3>2. PICK m \in Int : m = n - 1
      OBVIOUS
    <3>3. g = [Top(w) EXCEPT !.pc = "get", !.n = m]
      BY <1>2, <2>1, <3>2
    <3> QED
      BY <1>1, <1>2, <3>1, <3>2, <3>3 DEF FrameType
  <2>3. FrameFits(g)
    BY <2>2 DEF FrameFits, TaskPcs
  <2>4. n - 1 \in 0 .. Len(Kids[p]) /\ \A k \in DOMAIN Kids[p] : ~ (k > n - 1)
    <3>1. Len(Kids[p]) \in Nat /\ DOMAIN Kids[p] = 1 .. Len(Kids[p])
      BY KidFacts
    <3>2. n = Len(Kids[p]) + 1
      BY <1>3, <1>4, <3>1
    <3> QED
      BY <3>1, <3>2
  <2>5. Progress(g)
    BY <2>2, <2>4 DEF Progress, Done
  <2>6. UNCHANGED <<main, queue, public, poolVars, event, state, conts>> /\ locked' \in [Tasks -> BOOLEAN]
    BY <1>0, <1>1, <1>2, <1>4 DEF TaskSpawn, Types
  <2> QED
    BY <1>1, <1>2, <2>1, <2>2, <2>3, <2>5, <2>6, TaskStepInv
<1>5. CASE n <= Len(Kids[p])
  <2>1. n \in DOMAIN Kids[p] /\ Kids[p][n] \in Tasks
    BY <1>3, <1>5, KidFacts
  <2>2. PICK t \in Tasks : t = Kids[p][n] /\ t = Kid(Top(w))
    BY <1>2, <2>1 DEF Kid
  <2>3. PICK g : g = [Top(w) EXCEPT !.pc = "peek"] /\ Goto(w, g)
    BY <1>2, <1>5 DEF TaskSpawn
  <2>4. /\ g \in FrameType /\ g.kind = "task" /\ g.pc = "peek" /\ g.n = n
        /\ g.task = p /\ FrameFits(g)
    BY <1>1, <1>2, <2>3, TaskPcFacts DEF TaskPcs
  <2>5. queue' = [queue EXCEPT ![w] = Append(@, t)] /\ state' = [state EXCEPT ![t] = "queued"]
    BY <1>2, <1>5, <2>2 DEF TaskSpawn
  <2>6. /\ state[t] = "new" /\ state'[t] = "queued"
        /\ \A s \in Tasks : s # t => state'[s] = state[s]
        /\ state' \in [Tasks -> {"new", "queued", "running", "completed", "released"}]
    <3>1. n >= n
      OBVIOUS
    <3>2. state[t] = "new"
      BY <1>3, <2>1, <2>2, <3>1 DEF Fresh
    <3> QED
      BY <1>0, <2>5, <3>2 DEF Types
  <2>7. /\ stack' \in [Workers -> Seq(FrameType)] /\ Others(w) /\ Active(w)' /\ Top(w)' = g
    BY <1>0, <1>1, <2>3, <2>4, GotoFacts DEF Types
  <2>8. \A v \in Workers, i \in Nat : \A h : FrameAt(v, i, h)' <=>
           IF v = w /\ i = Depth(w) THEN h = g ELSE FrameAt(v, i, h)
    <3>1. \A i \in Nat : \A h : FrameAt(w, i, h)' <=> IF i = Depth(w) THEN h = g ELSE FrameAt(w, i, h)
      BY <1>0, <1>1, <2>3, <2>4, GotoFrames DEF Types
    <3>2. \A v \in Workers : v # w => \A i \in Nat : \A h : FrameAt(v, i, h)' <=> FrameAt(v, i, h)
      BY <2>7, OtherFrames
    <3> QED
      BY <3>1, <3>2
  <2>9. \A v \in Workers : Depth(v)' = Depth(v)
    BY <1>0, <1>1, <2>3, <2>4, <2>7, GotoFrames, OtherFrames DEF Types
  <2>10. StackInv'
    BY <1>0, <1>1, <1>2, <2>4, <2>8, <2>9, ThreadPoolAssumption DEF StackInv
  <2>11. PICK d \in Nat, f \in FrameType : d = Depth(w) /\ f = Top(w) /\ Runs(w, d, f)
    BY <1>1 DEF Runs
  <2>12. /\ \A v \in Workers, i \in Nat, h \in FrameType : Runs(v, i, h)' <=>
               IF v = w /\ i = d THEN h = g ELSE Runs(v, i, h)
         /\ \A v \in Workers, i \in Nat, h \in FrameType :
               Runs(v, i, h) => h.task \in Tasks /\ (h.task = p => v = w /\ i = d) /\ h.task # t
    <3>1. \A v \in Workers, i \in Nat, h \in FrameType : Runs(v, i, h)' <=>
             IF v = w /\ i = d THEN h = g ELSE Runs(v, i, h)
      BY <2>4, <2>8, <2>11 DEF Runs
    <3>2. \A v \in Workers, i \in Nat, h \in FrameType : Runs(v, i, h) => (h.task = p => v = w /\ i = d)
      BY <1>0, <1>2, <2>11 DEF FrameInv
    <3>3. \A v \in Workers, i \in Nat, h \in FrameType : Runs(v, i, h) => h.task # t
      BY <1>0, <2>6 DEF FrameInv
    <3> QED
      BY <1>0, <3>1, <3>2, <3>3, RunTasks
  <2>13. p # t
    BY <1>3, <2>6
  <2>14. FrameInv'
    <3>1. \A v, u \in Workers : \A i, j \in Nat : \A h, k \in FrameType :
             Runs(v, i, h)' /\ Runs(u, j, k)' /\ h.task = k.task => v = u /\ i = j
      BY <1>0, <2>4, <2>12 DEF FrameInv
    <3>2. \A v \in Workers, i \in Nat, h \in FrameType : Runs(v, i, h)' =>
             state'[h.task] = IF h.pc \in {"lock", "flush"} THEN "completed" ELSE "running"
      BY <1>0, <1>3, <2>4, <2>6, <2>12, <2>13 DEF FrameInv
    <3>3. \A s \in Tasks : state'[s] \in {"running", "completed"} =>
             \E v \in Workers, i \in Nat, h \in FrameType : Runs(v, i, h)' /\ h.task = s
      <4> SUFFICES ASSUME NEW s \in Tasks, state'[s] \in {"running", "completed"}
                   PROVE  \E v \in Workers, i \in Nat, h \in FrameType : Runs(v, i, h)' /\ h.task = s
        OBVIOUS
      <4>1. s # t
        BY <2>6
      <4>2. PICK v \in Workers, i \in Nat, h \in FrameType : Runs(v, i, h) /\ h.task = s
        BY <1>0, <2>6, <4>1 DEF FrameInv
      <4>3. CASE v = w /\ i = d
        <5>1. s = p
          BY <1>2, <2>11, <4>2, <4>3 DEF Runs, FrameAt
        <5>2. Runs(w, d, g)' /\ g.task = s
          BY <2>4, <2>12, <5>1
        <5> QED
          BY <2>4, <5>2
      <4>4. CASE ~ (v = w /\ i = d)
        <5>1. Runs(v, i, h)'
          BY <2>12, <4>2, <4>4
        <5> QED
          BY <4>2, <5>1
      <4> QED
        BY <4>3, <4>4
    <3> QED
      BY <3>1, <3>2, <3>3 DEF FrameInv
  <2>15. /\ \A s \in Tasks : \A m : s # p => (Fresh(s, m) => Fresh(s, m)')
         /\ \A s \in Tasks : \A m : Done(s, m) => Done(s, m)'
    <3>1. \A s \in Tasks : s # p => \A k \in DOMAIN Kids[s] : Kids[s][k] # t
      BY <2>1, <2>2, OneParent
    <3>2. \A s \in Tasks : \A m : s # p => (Fresh(s, m) => Fresh(s, m)')
      BY <2>6, <3>1, KidFacts DEF Fresh
    <3>3. \A s \in Tasks : state[s] = "released" => state'[s] = "released"
      BY <2>6
    <3>4. \A s \in Tasks : \A m : Done(s, m) => Done(s, m)'
      BY <3>3, KidFacts DEF Done
    <3> QED
      BY <3>2, <3>4
  <2>16. KidInv'
    <3>1. Progress(g)'
      <4>1. \A k \in DOMAIN Kids[p] : k >= n + 1 => k >= n /\ k # n
        BY KidFacts
      <4>2. \A k \in DOMAIN Kids[p] : k # n => Kids[p][k] # t
        BY <2>1, <2>2, OneParent
      <4>3. Fresh(p, n + 1)'
        BY <1>3, <2>6, <4>1, <4>2, KidFacts DEF Fresh
      <4>4. n \in 1 .. Len(Kids[p])
        BY <2>1, KidFacts
      <4> QED
        BY <2>4, <4>3, <4>4 DEF Progress
    <3>2. \A h \in FrameType : h.task \in Tasks /\ h.task # p /\ Progress(h) => Progress(h)'
      BY <2>15 DEF Progress
    <3>3. \A v \in Workers, i \in Nat, h \in FrameType : Runs(v, i, h)' => Progress(h)'
      BY <1>0, <2>12, <3>1, <3>2 DEF KidInv
    <3>4. \A s \in Tasks : state'[s] \in {"new", "queued"} => Fresh(s, 1)'
      BY <1>0, <1>3, <2>6, <2>13, <2>15 DEF KidInv
    <3>5. \A s \in Tasks : state'[s] = "released" => Done(s, 0)'
      BY <1>0, <2>6, <2>15 DEF KidInv
    <3> QED
      BY <3>3, <3>4, <3>5 DEF KidInv
  <2>17. Busy(w) /\ Busy(w)' /\ ~ InLoop(w)' /\ Top(w)'.kind = "task"
    BY <1>1, <2>4, <2>7 DEF Busy, InLoop
  <2>18. \A v \in Workers : v # w => queue'[v] = queue[v]
    BY <1>0, <2>5 DEF Types
  <2>19. WakeInv'
    BY <1>1, <2>7, <2>17, <2>18, BusyInv
  <2>20. QueueInv' /\ queue' \in [Workers -> Seq(Tasks)]
    BY <1>0, <1>1, <2>5, <2>6, EnqueueInv DEF Types
  <2>21. MainInv'
    <3>1. \A i \in DOMAIN Roots : Roots[i] # t
      BY <2>1, <2>2, ThreadPoolAssumption
    <3>2. \A i \in DOMAIN Roots : state[Roots[i]] = "new" => state'[Roots[i]] = "new"
      BY <2>6, <3>1, KidFacts
    <3> QED
      BY <1>0, <1>1, <3>2, SameMainInv
  <2>22. Types'
    BY <1>0, <1>1, <2>6, <2>7, <2>20 DEF Types
  <2> QED
    BY <2>10, <2>14, <2>16, <2>19, <2>20, <2>21, <2>22 DEF PoolInv, WakeInv
<1> QED
  BY <1>4, <1>5

-----------------------------------------------------------------------------
(* The steps of the main thread.                                            *)

\* The main thread does something that is no worker's concern.
LEMMA MainStepInv ==
    ASSUME PoolInv,
           UNCHANGED <<stack, queue, public, lock, waiters, shutdown, left, joined, state, locked>>,
           main' \in [pc : MainPcs, n : Nat],
           event' \in [Threads -> SUBSET {"finished", "available"}],
           conts' \in [Tasks -> Seq(Threads)],
           \A v \in Workers : event[v] \subseteq event'[v],
           main'.pc \in {"join", "freed"} <=> main.pc \in {"join", "freed"},
           MainInv'
    PROVE  PoolInv'
<1>0. Types /\ StackInv /\ QueueInv /\ FrameInv /\ KidInv
  BY DEF PoolInv
<1>1. WakeInv'
  BY StillInv
<1>2. QueueInv'
  BY <1>0, SameQueuesInv
<1>3. FrameInv' /\ KidInv'
  BY <1>0, SameRunsInv DEF Runs, FrameAt, Depth
<1>4. StackInv'
  <2>1. \A w \in Workers : Depth(w)' = Depth(w) /\ \A i, f : FrameAt(w, i, f)' <=> FrameAt(w, i, f)
    BY DEF FrameAt, Depth
  <2> QED
    BY <1>0, <2>1 DEF StackInv
<1>5. Types'
  BY <1>0 DEF Types
<1> QED
  BY <1>1, <1>2, <1>3, <1>4, <1>5 DEF PoolInv, WakeInv

LEMMA MainScheduledInv ==
    ASSUME PoolInv, MainScheduled
    PROVE  PoolInv'
<1>0. Types /\ MainInv
  BY DEF PoolInv
<1>1. /\ UNCHANGED <<stack, queue, public, lock, waiters, shutdown, left, joined, state, locked>>
      /\ UNCHANGED <<event, conts>> /\ main.pc = "schedule"
  BY DEF MainScheduled, poolVars, taskVars
<1>2. PICK pc \in {"wait", "destroy"} : main' = [pc |-> pc, n |-> Len(Roots)]
  BY DEF MainScheduled
<1>3. main' \in [pc : MainPcs, n : Nat]
  BY <1>2, KidFacts DEF MainPcs
<1>4. MainInv'
  BY <1>2, KidFacts DEF MainInv
<1> QED
  BY <1>0, <1>1, <1>2, <1>3, <1>4, MainStepInv DEF Types

LEMMA MainWaitInv ==
    ASSUME PoolInv, MainWait
    PROVE  PoolInv'
<1>0. Types /\ MainInv
  BY DEF PoolInv
<1>1. /\ UNCHANGED <<stack, queue, public, lock, waiters, shutdown, left, joined, state, locked>>
      /\ main.pc = "wait" /\ main.n \in 0 .. Len(Roots) /\ main \in [pc : MainPcs, n : Nat]
  BY <1>0 DEF MainWait, poolVars, Types, MainInv
<1>2. PICK pc \in {"destroy", "unique", "sleep"} :
         main' = [main EXCEPT !.pc = pc] /\ (main.n = 0 => pc = "destroy")
  BY DEF MainWait
<1>3. main' \in [pc : MainPcs, n : Nat] /\ main'.pc = pc /\ main'.n = main.n
  BY <1>1, <1>2 DEF MainPcs
<1>4. MainInv'
  <2>1. main.n # 0 => main.n \in 1 .. Len(Roots)
    BY <1>1, KidFacts
  <2>2. pc # "destroy" => main.n # 0
    BY <1>2
  <2> QED
    BY <1>2, <1>3, <2>1, <2>2 DEF MainInv
<1>5. /\ event' \in [Threads -> SUBSET {"finished", "available"}]
      /\ conts' \in [Tasks -> Seq(Threads)]
      /\ \A p \in Threads : event[p] \subseteq event'[p]
  <2>1. CASE UNCHANGED <<event, conts>>
    BY <1>0, <2>1 DEF Types
  <2>2. CASE main.n # 0 /\ OnFinish(Roots[main.n], Main)
    <3>1. main.n \in DOMAIN Roots
      BY <1>1, <2>2, KidFacts
    <3>2. Roots[main.n] \in Tasks /\ Main \in Threads
      BY <3>1, KidFacts DEF Threads
    <3> QED
      BY <1>0, <2>2, <3>2, OnFinishFacts
  <2> QED
    BY <2>1, <2>2 DEF MainWait
<1>6. \A v \in Workers : event[v] \subseteq event'[v]
  BY <1>5 DEF Threads
<1> QED
  BY <1>1, <1>2, <1>3, <1>4, <1>5, <1>6, MainStepInv

LEMMA MainSleepInv ==
    ASSUME PoolInv, MainSleep
    PROVE  PoolInv'
<1>0. Types /\ MainInv
  BY DEF PoolInv
<1>1. /\ UNCHANGED <<stack, queue, public, lock, waiters, shutdown, left, joined, state, locked>>
      /\ UNCHANGED conts /\ main.pc = "sleep" /\ main.n \in 1 .. Len(Roots)
      /\ main \in [pc : MainPcs, n : Nat]
      /\ main' = [main EXCEPT !.pc = "unique"]
  BY <1>0 DEF MainSleep, poolVars, taskVars, Types, MainInv
<1>2. main' \in [pc : MainPcs, n : Nat] /\ main'.pc = "unique" /\ main'.n = main.n
  BY <1>1 DEF MainPcs
<1>3. MainInv'
  BY <1>1, <1>2 DEF MainInv
<1>4. /\ event' \in [Threads -> SUBSET {"finished", "available"}]
      /\ \A v \in Workers : event[v] \subseteq event'[v]
  <2>1. Main \in Threads /\ \A v \in Workers : v # Main /\ v \in Threads
    BY ThreadPoolAssumption DEF Threads
  <2> QED
    BY <1>0, <2>1 DEF MainSleep, Types
<1> QED
  BY <1>0, <1>1, <1>2, <1>3, <1>4, MainStepInv DEF Types

LEMMA MainUniqueInv ==
    ASSUME PoolInv, MainUnique
    PROVE  PoolInv'
<1>0. Types /\ MainInv
  BY DEF PoolInv
<1>1. /\ UNCHANGED <<stack, queue, public, lock, waiters, shutdown, left, joined, state, locked>>
      /\ UNCHANGED <<event, conts>> /\ main.pc = "unique" /\ main.n \in 1 .. Len(Roots)
      /\ main' = [pc |-> "wait", n |-> main.n - 1]
  BY <1>0 DEF MainUnique, poolVars, taskVars, MainInv
<1>2. main.n - 1 \in 0 .. Len(Roots) /\ main.n - 1 \in Nat
  BY <1>1, KidFacts
<1>3. main' \in [pc : MainPcs, n : Nat] /\ main'.pc = "wait" /\ main'.n \in 0 .. Len(Roots)
  BY <1>1, <1>2 DEF MainPcs
<1>4. MainInv'
  BY <1>3 DEF MainInv
<1> QED
  BY <1>0, <1>1, <1>3, <1>4, MainStepInv DEF Types

LEMMA MainJoinInv ==
    ASSUME PoolInv, MainJoin
    PROVE  PoolInv'
<1>0. Types /\ MainInv
  BY DEF PoolInv
<1>1. /\ UNCHANGED <<stack, queue, public, lock, waiters, shutdown, left, joined, state, locked>>
      /\ UNCHANGED <<event, conts>> /\ main.pc = "join" /\ main \in [pc : MainPcs, n : Nat]
      /\ main' = [main EXCEPT !.pc = "freed"]
  BY <1>0 DEF MainJoin, poolVars, taskVars, Types
<1>2. main' \in [pc : MainPcs, n : Nat] /\ main'.pc = "freed"
  BY <1>1 DEF MainPcs
<1>3. MainInv'
  BY <1>2 DEF MainInv
<1> QED
  BY <1>0, <1>1, <1>2, <1>3, MainStepInv DEF Types

LEMMA MainScheduleInv ==
    ASSUME PoolInv, MainSchedule
    PROVE  PoolInv'
<1>0. /\ Types /\ StackInv /\ QueueInv /\ FrameInv /\ KidInv /\ MainInv
      /\ LockInv /\ WaitInv /\ IdleInv /\ EndInv
  BY DEF PoolInv
<1>1. /\ UNCHANGED <<stack, queue, lock, shutdown, left, joined, locked, conts>>
      /\ main.pc = "schedule" /\ main \in [pc : MainPcs, n : Nat]
      /\ main' = [main EXCEPT !.n = main.n + 1]
      /\ lock = None /\ WakeOne /\ main.n <= Len(Roots)
  BY <1>0 DEF MainSchedule, Types
<1>2. main.n \in DOMAIN Roots /\ main.n \in 1 .. Len(Roots) /\ main.n >= main.n
  BY <1>0, <1>1, KidFacts DEF MainInv
<1>3. PICK t \in Tasks : t = Roots[main.n]
  BY <1>2, KidFacts
<1>4. public' = Append(public, t) /\ state' = [state EXCEPT ![t] = "queued"]
  BY <1>3 DEF MainSchedule
<1>5. state[t] = "new"
  BY <1>0, <1>1, <1>2, <1>3 DEF MainInv
<1>6. /\ state'[t] = "queued" /\ \A s \in Tasks : s # t => state'[s] = state[s]
      /\ state' \in [Tasks -> {"new", "queued", "running", "completed", "released"}]
  BY <1>0, <1>4 DEF Types
<1>7. QueueInv' /\ public' \in Seq(Tasks)
  BY <1>0, <1>1, <1>4, <1>5, <1>6, EnqueuePublicInv DEF Types
<1>8. \A w \in Workers :
         /\ (Active(w)' <=> Active(w)) /\ Top(w)' = Top(w) /\ (InLoop(w)' <=> InLoop(w))
         /\ \A kind, pc : At(w, kind, pc)' <=> At(w, kind, pc)
         /\ Depth(w)' = Depth(w) /\ \A i, f : FrameAt(w, i, f)' <=> FrameAt(w, i, f)
  BY <1>1 DEF Active, Top, InLoop, At, Depth, FrameAt
<1>9. \A w \in Workers, i \in Nat, f \in FrameType : Runs(w, i, f)' <=> Runs(w, i, f)
  BY <1>8 DEF Runs
<1>10. StackInv'
  BY <1>0, <1>8 DEF StackInv
<1>11. \A w \in Workers, i \in Nat, f \in FrameType : Runs(w, i, f) => f.task \in Tasks /\ f.task # t
  <2>1. \A w \in Workers, i \in Nat, f \in FrameType : Runs(w, i, f) => f.task # t
    BY <1>0, <1>5 DEF FrameInv
  <2> QED
    BY <1>0, <2>1, RunTasks
<1>12. FrameInv'
  <2>1. \A v, u \in Workers : \A i, j \in Nat : \A h, k \in FrameType :
           Runs(v, i, h)' /\ Runs(u, j, k)' /\ h.task = k.task => v = u /\ i = j
    BY <1>0, <1>9 DEF FrameInv
  <2>2. \A w \in Workers, i \in Nat, f \in FrameType : Runs(w, i, f)' =>
           state'[f.task] = IF f.pc \in {"lock", "flush"} THEN "completed" ELSE "running"
    BY <1>0, <1>6, <1>9, <1>11 DEF FrameInv
  <2>3. \A s \in Tasks : state'[s] \in {"running", "completed"} =>
           \E v \in Workers, i \in Nat, h \in FrameType : Runs(v, i, h)' /\ h.task = s
    <3> SUFFICES ASSUME NEW s \in Tasks, state'[s] \in {"running", "completed"}
                 PROVE  \E v \in Workers, i \in Nat, h \in FrameType : Runs(v, i, h)' /\ h.task = s
      OBVIOUS
    <3>1. state[s] \in {"running", "completed"}
      BY <1>6
    <3>2. PICK v \in Workers, i \in Nat, h \in FrameType : Runs(v, i, h) /\ h.task = s
      BY <1>0, <3>1 DEF FrameInv
    <3> QED
      BY <1>9, <3>2
  <2> QED
    BY <2>1, <2>2, <2>3 DEF FrameInv
<1>13. KidInv'
  <2>1. \A s \in Tasks : \A k \in DOMAIN Kids[s] : Kids[s][k] \in Tasks /\ Kids[s][k] # t
    BY <1>2, <1>3, KidFacts, ThreadPoolAssumption
  <2>2. \A s \in Tasks : \A n : (Fresh(s, n) => Fresh(s, n)') /\ (Done(s, n) => Done(s, n)')
    BY <1>6, <2>1 DEF Fresh, Done
  <2>3. \A f \in FrameType : f.task \in Tasks /\ Progress(f) => Progress(f)'
    BY <2>2 DEF Progress
  <2>4. \A w \in Workers, i \in Nat, f \in FrameType : Runs(w, i, f)' => Progress(f)'
    BY <1>0, <1>9, <1>11, <2>3 DEF KidInv
  <2>5. \A s \in Tasks : state'[s] \in {"new", "queued"} => Fresh(s, 1)'
    BY <1>0, <1>5, <1>6, <2>2 DEF KidInv
  <2>6. \A s \in Tasks : state'[s] = "released" => Done(s, 0)'
    BY <1>0, <1>6, <2>2 DEF KidInv
  <2> QED
    BY <2>4, <2>5, <2>6 DEF KidInv
<1>14. /\ main' \in [pc : MainPcs, n : Nat] /\ main'.pc = "schedule" /\ main'.n = main.n + 1
  BY <1>1
<1>15. MainInv'
  <2>1. main.n + 1 \in 1 .. Len(Roots) + 1
    BY <1>2, KidFacts
  <2>2. \A i \in DOMAIN Roots : i >= main.n + 1 => i >= main.n /\ i # main.n
    BY <1>2, KidFacts
  <2>3. \A i \in DOMAIN Roots : i # main.n => Roots[i] # t
    BY <1>2, <1>3, ThreadPoolAssumption
  <2>4. \A i \in DOMAIN Roots : i >= main.n + 1 => state'[Roots[i]] = "new"
    BY <1>0, <1>1, <1>6, <2>2, <2>3, KidFacts DEF MainInv
  <2> QED
    BY <1>14, <2>1, <2>4 DEF MainInv
<1>16. LockInv'
  <2>1. \A w \in Workers : w # None
    BY ThreadPoolAssumption
  <2> QED
    BY <1>0, <1>1, <1>8, <2>1 DEF LockInv
<1>17. WaitInv'
  BY <1>1, <1>8, WakeOneInv
<1>18. \A w \in Workers : Active(w) /\ ~ shutdown
  BY <1>0, <1>1 DEF IdleInv, EndInv
<1>19. IdleInv'
  BY <1>0, <1>1, <1>8, <1>18 DEF IdleInv
<1>20. /\ waiters' \in Seq(Workers)
       /\ event' \in [Threads -> SUBSET {"finished", "available"}]
       /\ \A p \in Threads : event[p] \subseteq event'[p]
       /\ waiters # <<>> => \E w \in Workers : w \in ToSet(waiters) /\ event'[w] # {}
  BY <1>0, <1>1, WakeOneFacts DEF Types, WaitInv
<1>21. WorkInv'
  <2>1. CASE waiters # <<>>
    <3>1. PICK w \in Workers : event'[w] # {}
      BY <1>20, <2>1
    <3> QED
      BY <1>8, <1>18, <3>1 DEF WorkInv, Asleep
  <2>2. CASE waiters = <<>>
    <3>1. PICK w \in Workers : TRUE
      BY ThreadPoolAssumption
    <3>2. ~ InWaiters(w)
      BY <2>2 DEF InWaiters, ToSet
    <3>3. ~ Asleep(w)
      BY <1>0, <3>2 DEF WaitInv
    <3>4. ~ Asleep(w)'
      <4>1. event' = event
        BY <1>1, <2>2 DEF WakeOne
      <4> QED
        BY <1>8, <3>3, <4>1 DEF Asleep
    <3> QED
      BY <1>8, <1>18, <3>4 DEF WorkInv
  <2> QED
    BY <2>1, <2>2
<1>22. EndInv'
  <2>1. Present' = Present
    BY <1>8 DEF Present
  <2> QED
    BY <1>0, <1>1, <1>14, <2>1 DEF EndInv
<1>23. Types'
  BY <1>0, <1>1, <1>6, <1>7, <1>14, <1>20 DEF Types
<1> QED
  BY <1>7, <1>10, <1>12, <1>13, <1>15, <1>16, <1>17, <1>19, <1>21, <1>22, <1>23 DEF PoolInv

LEMMA MainDestroyInv ==
    ASSUME PoolInv, MainDestroy
    PROVE  PoolInv'
<1>0. /\ Types /\ StackInv /\ QueueInv /\ FrameInv /\ KidInv /\ MainInv
      /\ LockInv /\ WaitInv /\ IdleInv /\ WorkInv /\ EndInv
  BY DEF PoolInv
<1>1. /\ UNCHANGED <<stack, queue, public, lock, joined, state, locked, conts>>
      /\ main.pc = "destroy" /\ main \in [pc : MainPcs, n : Nat]
      /\ main' = [main EXCEPT !.pc = "join"]
      /\ shutdown' = TRUE /\ waiters' = <<>> /\ left' = Cardinality(Workers) /\ lock = None
      /\ event' = [p \in Threads |->
                     IF Contains(waiters, p) THEN event[p] \cup {"available"} ELSE event[p]]
  BY <1>0 DEF MainDestroy, Types, taskVars
<1>2. \A w \in Workers :
         /\ (Active(w)' <=> Active(w)) /\ Top(w)' = Top(w) /\ (InLoop(w)' <=> InLoop(w))
         /\ \A kind, pc : At(w, kind, pc)' <=> At(w, kind, pc)
         /\ Depth(w)' = Depth(w) /\ \A i, f : FrameAt(w, i, f)' <=> FrameAt(w, i, f)
  BY <1>1 DEF Active, Top, InLoop, At, Depth, FrameAt
<1>3. \A w \in Workers : Active(w) /\ ~ shutdown
  BY <1>0, <1>1 DEF IdleInv, EndInv
<1>4. main' \in [pc : MainPcs, n : Nat] /\ main'.pc = "join"
  BY <1>1 DEF MainPcs
<1>5. StackInv'
  BY <1>0, <1>2 DEF StackInv
<1>6. FrameInv' /\ KidInv'
  <2>1. \A w \in Workers, i \in Nat, f \in FrameType : Runs(w, i, f)' <=> Runs(w, i, f)
    BY <1>2 DEF Runs
  <2> QED
    BY <1>0, <1>1, <2>1, SameRunsInv
<1>7. QueueInv'
  BY <1>0, <1>1, SameQueuesInv
<1>8. MainInv'
  BY <1>4 DEF MainInv
<1>9. LockInv'
  BY <1>0, <1>1, <1>2 DEF LockInv
<1>10. event' \in [Threads -> SUBSET {"finished", "available"}]
  BY <1>0, <1>1 DEF Types
<1>11. \A w \in Workers : ~ Asleep(w)'
  <2> SUFFICES ASSUME NEW w \in Workers, Asleep(w)'
               PROVE  FALSE
    OBVIOUS
  <2>1. At(w, "loop", "wait") /\ event'[w] = {}
    BY <1>2 DEF Asleep
  <2>2. ~ Contains(waiters, w) /\ event[w] = {}
    BY <1>1, <2>1 DEF Threads
  <2>3. w \in ToSet(waiters)
    BY <1>0, <2>1, <2>2 DEF Asleep, WaitInv, InWaiters
  <2>4. waiters \in Seq(Workers)
    BY <1>0 DEF Types
  <2>5. DOMAIN waiters = 1 .. Len(waiters)
    BY <2>4, LenProperties
  <2> QED
    BY <2>2, <2>3, <2>5 DEF Contains, ToSet
<1>12. WaitInv'
  BY <1>1, <1>11 DEF WaitInv, InWaiters, ToSet, IsInjective
<1>13. IdleInv'
  BY <1>0, <1>1, <1>2, <1>3 DEF IdleInv
<1>14. WorkInv'
  <2>1. PICK w \in Workers : TRUE
    BY ThreadPoolAssumption
  <2> QED
    BY <1>2, <1>3, <1>11, <2>1 DEF WorkInv
<1>15. EndInv'
  <2>1. Present = Workers /\ Present' = Workers
    BY <1>2, <1>3 DEF Present
  <2> QED
    BY <1>0, <1>1, <1>4, <2>1 DEF EndInv
<1>16. left' \in Int
  BY <1>1, ThreadPoolAssumption, FS_CardinalityType
<1>17. Types'
  BY <1>0, <1>1, <1>4, <1>10, <1>16 DEF Types
<1> QED
  BY <1>5, <1>6, <1>7, <1>8, <1>9, <1>12, <1>13, <1>14, <1>15, <1>17 DEF PoolInv

-----------------------------------------------------------------------------
(* The theorems.                                                            *)

LEMMA InitInv ==
    ASSUME Init
    PROVE  PoolInv
<1> DEFINE f == LoopFrame(None)
<1>0. PICK l : l = f
  OBVIOUS
<1>1. /\ l \in FrameType /\ l.kind = "loop" /\ l.pc = "check" /\ l.task = None /\ FrameFits(l)
  <2>1. l = [kind |-> "loop", pc |-> "check", task |-> None, n |-> 0, added |-> FALSE, victims |-> {}]
    BY <1>0 DEF LoopFrame
  <2>2. l \in FrameType
    BY <2>1 DEF FrameType, LoopPcs
  <2> QED
    BY <2>1, <2>2 DEF FrameFits, LoopPcs
<1>2. PICK s : s = <<l>>
  OBVIOUS
<1>3. s \in Seq(FrameType) /\ Len(s) = 1 /\ s[1] = l /\ s # <<>> /\ Last(s) = l
  BY <1>1, <1>2 DEF Last
<1>4. stack = [w \in Workers |-> s]
  BY <1>0, <1>2 DEF Init
<1>5. \A w \in Workers :
         /\ Active(w) /\ Top(w) = l /\ InLoop(w) /\ Depth(w) = 1
         /\ \A i \in Nat : \A h : FrameAt(w, i, h) <=> i = 1 /\ h = l
         /\ \A i \in Nat : \A h : ~ Runs(w, i, h)
         /\ \A pc : At(w, "loop", pc) => pc = "check"
         /\ ~ Asleep(w)
  <2> SUFFICES ASSUME NEW w \in Workers
               PROVE  /\ Active(w) /\ Top(w) = l /\ InLoop(w) /\ Depth(w) = 1
                      /\ \A i \in Nat : \A h : FrameAt(w, i, h) <=> i = 1 /\ h = l
                      /\ \A i \in Nat : \A h : ~ Runs(w, i, h)
                      /\ \A pc : At(w, "loop", pc) => pc = "check"
                      /\ ~ Asleep(w)
    OBVIOUS
  <2>1. stack[w] = s
    BY <1>4
  <2>2. Active(w) /\ Top(w) = l /\ InLoop(w) /\ Depth(w) = 1
    BY <1>1, <1>3, <2>1 DEF Active, Top, InLoop, Depth
  <2>3. \A i \in Nat : \A h : FrameAt(w, i, h) <=> i = 1 /\ h = l
    BY <1>3, <2>1, <2>2 DEF FrameAt
  <2>4. \A i \in Nat : \A h : ~ Runs(w, i, h)
    BY <1>1, <2>3 DEF Runs
  <2>5. \A pc : At(w, "loop", pc) => pc = "check"
    BY <1>1, <2>2 DEF At
  <2> QED
    BY <2>2, <2>3, <2>4, <2>5 DEF Asleep
<1>6. Types
  <2>1. stack \in [Workers -> Seq(FrameType)]
    BY <1>3, <1>4
  <2>2. main \in [pc : MainPcs, n : Nat]
    BY DEF Init, MainPcs
  <2>3. /\ queue \in [Workers -> Seq(Tasks)] /\ public \in Seq(Tasks) /\ waiters \in Seq(Workers)
        /\ conts \in [Tasks -> Seq(Threads)]
    BY DEF Init
  <2>4. lock \in Workers \cup {None} /\ left \in Int
    BY DEF Init
  <2>6. shutdown \in BOOLEAN
    BY DEF Init
  <2>7. joined \in BOOLEAN
    BY DEF Init
  <2>5. /\ event \in [Threads -> SUBSET {"finished", "available"}]
        /\ state \in [Tasks -> {"new", "queued", "running", "completed", "released"}]
        /\ locked \in [Tasks -> BOOLEAN]
    BY DEF Init
  <2> QED
    BY <2>1, <2>2, <2>3, <2>4, <2>5, <2>6, <2>7 DEF Types
<1>7. StackInv
  BY <1>1, <1>5 DEF StackInv
<1>8. LockInv
  BY <1>5 DEF LockInv, Init
<1>9. WaitInv
  BY <1>5 DEF WaitInv, Init, InWaiters, ToSet, IsInjective
<1>10. IdleInv /\ WorkInv
  BY <1>5 DEF IdleInv, WorkInv, Init
<1>11. EndInv
  BY DEF EndInv, Init
<1>12. QueueInv
  BY DEF QueueInv, Init, ToSet, IsInjective
<1>13. FrameInv
  BY <1>5 DEF FrameInv, Init
<1>14. KidInv
  BY <1>5, KidFacts DEF KidInv, Init, Fresh
<1>15. MainInv
  BY KidFacts DEF MainInv, Init
<1> QED
  BY <1>6, <1>7, <1>8, <1>9, <1>10, <1>11, <1>12, <1>13, <1>14, <1>15 DEF PoolInv

LEMMA StutterInv ==
    ASSUME PoolInv, UNCHANGED vars
    PROVE  PoolInv'
<1>0. Types /\ StackInv /\ QueueInv /\ FrameInv /\ KidInv /\ MainInv
  BY DEF PoolInv
<1>1. /\ UNCHANGED <<stack, main, queue, public, lock, waiters, shutdown, left, joined, event>>
      /\ UNCHANGED <<state, locked, conts>>
  BY DEF vars, poolVars, taskVars
<1>2. MainInv' /\ main' \in [pc : MainPcs, n : Nat]
  BY <1>0, <1>1, SameMainInv DEF Types
<1> QED
  BY <1>0, <1>1, <1>2, MainStepInv DEF Types

LEMMA NextInv ==
    ASSUME PoolInv, [Next]_vars
    PROVE  PoolInv'
<1>1. CASE MainStep
  BY <1>1, MainScheduleInv, MainScheduledInv, MainWaitInv, MainSleepInv, MainUniqueInv,
     MainDestroyInv, MainJoinInv DEF MainStep
<1>2. ASSUME NEW w \in Workers, Loop(w)
      PROVE  PoolInv'
  BY <1>2, LoopCheckInv, LoopPopInv, LoopStealInv, LoopLockInv, LoopOnFinishInv,
     LoopEnlistInv, LoopWaitInv, LoopDelistInv DEF Loop
<1>3. ASSUME NEW w \in Workers, RunTask(w)
      PROVE  PoolInv'
  BY <1>3, TaskSpawnInv, TaskPeekInv, TaskWakeInv, TaskGetInv, TaskResultInv, TaskUniqueInv,
     TaskFinishInv, TaskLockInv, TaskFlushInv, TaskReleaseInv DEF RunTask
<1>4. CASE Terminated \/ UNCHANGED vars
  BY <1>4, StutterInv DEF Terminated
<1> QED
  BY <1>1, <1>2, <1>3, <1>4 DEF Next

\* In every reachable state the stacks, the lists and the states of the tasks
\* fit each other: the inductive invariant.
THEOREM PoolConsistent == Spec => []PoolInv
<1>1. Init => PoolInv
  BY InitInv
<1>2. PoolInv /\ [Next]_vars => PoolInv'
  BY NextInv
<1> QED
  BY <1>1, <1>2, PTL DEF Spec

\* The waiters array never holds a worker twice, however many workers there are,
\* and none that has left event.wait() and taken itself out.
THEOREM ArrayLongEnough == Spec => []WaitersOnce
<1>1. PoolInv => WaitersOnce
  <2> SUFFICES ASSUME PoolInv
               PROVE  WaitersOnce
    OBVIOUS
  <2>1. WaitInv /\ waiters \in Seq(Workers)
    BY DEF PoolInv, Types
  <2>2. \A i \in DOMAIN waiters : waiters[i] \in Workers /\ waiters[i] \in ToSet(waiters)
    BY <2>1, ElementOfSeq, LenProperties DEF ToSet
  <2> QED
    BY <2>1, <2>2 DEF WaitersOnce, WaitInv, InWaiters, IsInjective
<1> QED
  BY <1>1, PoolConsistent, PTL

\* As long as a task is queued some worker is awake or has been signalled.
THEOREM NoneLeftBehind == Spec => []NoWorkLeftBehind
<1>1. PoolInv => NoWorkLeftBehind
  <2> SUFFICES ASSUME PoolInv, public # <<>> \/ \E w \in Workers : queue[w] # <<>>
               PROVE  \E w \in Workers : Active(w) /\ ~ Asleep(w)
    BY DEF NoWorkLeftBehind
  <2>1. IdleInv /\ WorkInv
    BY DEF PoolInv
  <2>2. CASE public # <<>>
    BY <2>1, <2>2 DEF WorkInv
  <2>3. CASE public = <<>>
    <3>1. PICK w \in Workers : queue[w] # <<>>
      BY <2>3
    <3>2. Active(w) /\ ~ At(w, "loop", "wait")
      BY <2>1, <3>1 DEF IdleInv, At, InLoop
    <3> QED
      BY <3>2 DEF Asleep
  <2> QED
    BY <2>2, <2>3
<1> QED
  BY <1>1, PoolConsistent, PTL

\* The frame that a local_task lives in outlives every use of it, in any tree of
\* tasks: parallel_for returns after its parts.
THEOREM FramesOutliveTasks == Spec => []LocalTasksOutlived
<1>1. PoolInv => LocalTasksOutlived
  <2> SUFFICES ASSUME PoolInv, NEW t \in Tasks, NEW k \in DOMAIN Kids[t],
                      state[Kids[t][k]] \in {"queued", "running", "completed"}
               PROVE  \E w \in Workers : \E f \in Frames(w) :
                         f.kind = "task" /\ f.task = t /\ f.n >= k
    BY DEF LocalTasksOutlived
  <2>1. Types /\ StackInv /\ FrameInv /\ KidInv
    BY DEF PoolInv
  <2>2. k \in Nat /\ k >= 1 /\ k > 0
    BY KidFacts
  <2>3. state[t] \notin {"new", "queued"}
    BY <2>1, <2>2 DEF KidInv, Fresh
  <2>4. state[t] # "released"
    BY <2>1, <2>2 DEF KidInv, Done
  <2>5. state[t] \in {"running", "completed"}
    BY <2>1, <2>3, <2>4 DEF Types
  <2>6. PICK w \in Workers, i \in Nat, f \in FrameType : Runs(w, i, f) /\ f.task = t
    BY <2>1, <2>5 DEF FrameInv
  <2>7. Progress(f) /\ f.pc \in TaskPcs /\ f.n \in Int
    BY <2>1, <2>6 DEF KidInv, StackInv, Runs, FrameFits, FrameType
  <2>8. ~ (k > f.n)
    <3>1. CASE f.pc = "spawn"
      <4>1. ~ (k >= f.n)
        BY <2>6, <2>7, <3>1 DEF Progress, Fresh
      <4> QED
        BY <2>2, <2>7, <4>1
    <3>2. CASE f.pc \in {"peek", "wake"}
      <4>1. ~ (k >= f.n + 1)
        BY <2>6, <2>7, <3>2 DEF Progress, Fresh
      <4> QED
        BY <2>2, <2>7, <4>1
    <3>3. CASE f.pc \in {"get", "result", "unique"}
      BY <2>6, <2>7, <3>3 DEF Progress, Done
    <3>4. CASE f.pc \in {"finish", "lock", "flush"}
      BY <2>6, <2>7, <3>4 DEF Progress, Done
    <3> QED
      BY <2>7, <3>1, <3>2, <3>3, <3>4 DEF TaskPcs
  <2>9. f.n >= k
    BY <2>2, <2>7, <2>8
  <2>10. f \in Frames(w)
    <3>1. stack[w] \in Seq(FrameType)
      BY <2>1 DEF Types
    <3>2. DOMAIN stack[w] = 1 .. Depth(w)
      BY <3>1, LenProperties DEF Depth
    <3> QED
      BY <2>6, <3>2 DEF Runs, FrameAt, Frames
  <2> QED
    BY <2>6, <2>9, <2>10 DEF Runs
<1> QED
  BY <1>1, PoolConsistent, PTL

\* However many workers there are, the one that notifies the destructor is the
\* last to leave, and no task is left half done.
THEOREM NotifiedByTheLast == Spec => []NotifiedAfterExit
<1>1. PoolInv => NotifiedAfterExit
  <2> SUFFICES ASSUME PoolInv, joined
               PROVE  /\ \A w \in Workers : ~ Active(w)
                      /\ \A t \in Tasks : state[t] \notin {"running", "completed"}
    BY DEF NotifiedAfterExit
  <2>1. EndInv /\ FrameInv
    BY DEF PoolInv
  <2>2. \A w \in Workers : ~ Active(w)
    BY <2>1 DEF EndInv, Present
  <2>3. \A w \in Workers, i \in Nat : \A f : ~ Runs(w, i, f)
    <3> SUFFICES ASSUME NEW w \in Workers
                 PROVE  \A i \in Nat : \A f : ~ Runs(w, i, f)
      OBVIOUS
    <3>1. stack[w] = <<>>
      BY <2>2 DEF Active
    <3>2. Depth(w) = 0
      BY <3>1 DEF Depth
    <3> QED
      BY <3>2 DEF Runs, FrameAt
  <2>4. \A t \in Tasks : state[t] \notin {"running", "completed"}
    BY <2>1, <2>3 DEF FrameInv
  <2> QED
    BY <2>2, <2>4
<1> QED
  BY <1>1, PoolConsistent, PTL

=============================================================================
