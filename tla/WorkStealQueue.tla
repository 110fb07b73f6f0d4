--------------------------- MODULE WorkStealQueue ---------------------------
(***************************************************************************)
(* work_steal_queue, the Chase-Lev deque of a pool thread: the thread that *)
(* owns it pushes and pops at the bottom, other threads steal at the top,  *)
(* and the circular array is replaced by one twice as long when it is      *)
(* full.  The indices wrap around, as std::size_t does.                    *)
(*                                                                         *)
(* Memory is that of the x86 the project is built for.  The owner's plain  *)
(* stores wait in a store buffer and reach memory later, in order; a fence *)
(* and a compare-exchange wait until it is empty.  Thieves store nothing   *)
(* but by compare-exchange.  So push is one step (it reads one location    *)
(* that others write, top, and stores into the buffer) and Flush is the    *)
(* moment a store becomes visible.                                         *)
(***************************************************************************)
EXTENDS Integers, Sequences

CONSTANTS Thieves,      \* the threads that steal
          Width,        \* bits of a std::size_t
          InitialSize,  \* slots of the first circular_array (32 in the code)
          Start,        \* top = bottom of an empty queue, after much use
          MaxPushes,    \* bound on the tasks pushed in a behaviour
          Null          \* the empty task_run_handle

\* The indices wrap around at Word.
Word == 2^Width

\* The size of an array divides Word, as a power of two does, and so does the
\* size of the next one.  top goes through less than half of its values.
ASSUME WorkStealQueueAssumption ==
    /\ Word \in Nat
    /\ InitialSize \in Nat \ {0} /\ Word % InitialSize = 0
    /\ \A s \in 1 .. Word - 1 : Word % s = 0 => Word % (2 * s) = 0
    /\ Start \in 0 .. Word - 1
    /\ MaxPushes \in Nat /\ 2 * MaxPushes < Word
    /\ Null \notin 1 .. MaxPushes

TaskIds == 1 .. MaxPushes

VARIABLES
    mem,    \* memory: `bottom', `array' and the items of every array
    own,    \* memory as its owner reads it: with all that it has stored
    top,    \* `top', which is only written by compare-exchange
    buf,    \* the owner's store buffer: <<location, value>>, oldest first
    owner,  \* the owner's pop: pc, `b', `t', `x'; got: Null if it returned none
    thief,  \* thief[i]: the steal of thread i: pc, `t', `a', `x'
    pushed, \* number of tasks pushed: the next one is task pushed + 1
    taken   \* taken[x]: how often task x was returned by pop or steal

dequeVars == <<mem, own, top, buf, owner, thief, pushed, taken>>

-----------------------------------------------------------------------------
(* Index arithmetic and memory.                                            *)

Wrap(i) == i % Word

\* to_signed
ToSigned(i) == IF 2 * Wrap(i) >= Word THEN Wrap(i) - Word ELSE Wrap(i)

\* Locations.  An array goes by its size, which tells it from the others.
Bottom == <<"bottom", 0, 0>>
Array == <<"array", 0, 0>>
Cell(s, i) == <<"item", s, i % s>>

Changed(m, w) == [m EXCEPT ![w[1]] = w[2]]

\* Memory m with a new array.
Extend(m, new) == [loc \in DOMAIN m \cup DOMAIN new |-> IF loc \in DOMAIN m THEN m[loc] ELSE new[loc]]

\* The indices from t up to, and without, b.
Between(t, b) == {Wrap(t + k) : k \in 0 .. ToSigned(b - t) - 1}

\* circular_array::grow: an array of twice the size s, with the items copied.
Grow(s, t, b) ==
    [loc \in {Cell(2 * s, k) : k \in 0 .. 2 * s - 1} |->
        IF \E i \in Between(t, b) : Cell(2 * s, i) = loc
        THEN own[Cell(s, CHOOSE i \in Between(t, b) : Cell(2 * s, i) = loc)]
        ELSE Null]

-----------------------------------------------------------------------------
Idle == [pc |-> "idle", b |-> 0, t |-> 0, x |-> Null, got |-> TRUE]
NoSteal == [pc |-> "idle", t |-> 0, a |-> 0, x |-> Null]

DequeInit ==
    /\ mem = [loc \in {Bottom, Array} \cup {Cell(InitialSize, k) : k \in 0 .. InitialSize - 1}
                |-> IF loc = Bottom THEN Start ELSE IF loc = Array THEN InitialSize ELSE Null]
    /\ own = mem
    /\ top = Start
    /\ buf = <<>>
    /\ owner = Idle
    /\ thief = [i \in Thieves |-> NoSteal]
    /\ pushed = 0
    /\ taken = [x \in TaskIds |-> 0]

Take(x) == taken' = [taken EXCEPT ![x] = @ + 1]

\* The owner stores `bottom'.
StoreBottom(b) ==
    /\ own' = Changed(own, <<Bottom, Wrap(b)>>)
    /\ buf' = Append(buf, <<Bottom, Wrap(b)>>)

\* pop gives bottom back what it has taken off.
Restore == StoreBottom(owner.b + 1)

-----------------------------------------------------------------------------
(* Plausible mistakes, which must break the properties.                    *)

\* pop without its seq_cst fence: top is read while the lowered bottom still
\* waits in the store buffer.
PopTopUnfenced ==
    LET n == ToSigned(owner.b - top)
        x == own[Cell(own[Array], owner.b)]
    IN
    /\ owner.pc = "fence"
    /\ \/ n < 0 /\ Restore /\ owner' = [Idle EXCEPT !.got = FALSE] /\ UNCHANGED taken
       \/ /\ n = 0
          /\ owner' = [owner EXCEPT !.pc = "cas", !.t = top, !.x = x]
          /\ UNCHANGED <<own, buf, taken>>
       \/ n > 0 /\ Take(x) /\ owner' = Idle /\ UNCHANGED <<own, buf>>
    /\ UNCHANGED <<mem, top, thief, pushed>>

\* pop's test for an empty queue is off by one.
PopBeginEarly ==
    LET b == own[Bottom] IN
    /\ owner.pc = "idle"
    /\ \/ /\ ToSigned(b - top) <= 1
          /\ owner' = [Idle EXCEPT !.got = FALSE]
          /\ UNCHANGED <<own, buf>>
       \/ /\ ToSigned(b - top) > 1
          /\ owner' = [Idle EXCEPT !.pc = "fence", !.b = Wrap(b - 1)]
          /\ StoreBottom(b - 1)
    /\ UNCHANGED <<mem, top, thief, pushed, taken>>

\* A failed compare-exchange is tried again with the same `t'.
StealCasStale(i) ==
    /\ thief[i].pc = "cas"
    /\ top = thief[i].t
    /\ top' = Wrap(top + 1)
    /\ Take(thief[i].x)
    /\ thief' = [thief EXCEPT ![i] = NoSteal]
    /\ UNCHANGED <<mem, own, buf, owner, pushed>>

-----------------------------------------------------------------------------
\* The oldest store of the owner reaches memory.
Flush ==
    /\ buf # <<>>
    /\ mem' = Changed(mem, Head(buf))
    /\ buf' = Tail(buf)
    /\ UNCHANGED <<own, top, owner, thief, pushed, taken>>

\* The task is put into the array of size s, and bottom raised.  m and v are
\* memory and what the owner sees of it, with the array in place.
Put(s, m, v, stores) ==
    LET b == own[Bottom] IN
    /\ mem' = m
    /\ own' = [v EXCEPT ![Cell(s, b)] = pushed + 1, ![Bottom] = Wrap(b + 1)]
    /\ buf' = stores \o << <<Cell(s, b), pushed + 1>>, <<Bottom, Wrap(b + 1)>> >>

\* push: grow if the array is full, put the task, move bottom.
Push ==
    LET s == own[Array]
        full == ToSigned(own[Bottom] - top) >= s
        new == Grow(s, top, own[Bottom])
    IN
    /\ owner.pc = "idle"
    /\ pushed < MaxPushes
    /\ \/ ~ full /\ Put(s, mem, own, buf)
       \/ /\ full
          /\ Put(2 * s, Extend(mem, new), Changed(Extend(own, new), <<Array, 2 * s>>),
                 Append(buf, <<Array, 2 * s>>))
    /\ pushed' = pushed + 1
    /\ owner' = Idle
    /\ UNCHANGED <<top, thief, taken>>

\* pop, first part: give up if the queue looks empty, else lower bottom.
PopBegin ==
    LET b == own[Bottom] IN
    /\ owner.pc = "idle"
    /\ \/ /\ ToSigned(b - top) <= 0
          /\ owner' = [Idle EXCEPT !.got = FALSE]
          /\ UNCHANGED <<own, buf>>
       \/ /\ ToSigned(b - top) > 0
          /\ owner' = [Idle EXCEPT !.pc = "fence", !.b = Wrap(b - 1)]
          /\ StoreBottom(b - 1)
    /\ UNCHANGED <<mem, top, thief, pushed, taken>>

\* The fence has drained the buffer; `t = top.load()' decides.
PopTop ==
    LET n == ToSigned(owner.b - top)
        x == own[Cell(own[Array], owner.b)]
    IN
    /\ owner.pc = "fence"
    /\ buf = <<>>
    /\ \/ n < 0 /\ Restore /\ owner' = [Idle EXCEPT !.got = FALSE] /\ UNCHANGED taken
       \/ /\ n = 0
          /\ owner' = [owner EXCEPT !.pc = "cas", !.t = top, !.x = x]
          /\ UNCHANGED <<own, buf, taken>>
       \/ n > 0 /\ Take(x) /\ owner' = Idle /\ UNCHANGED <<own, buf>>
    /\ UNCHANGED <<mem, top, thief, pushed>>

\* The last element: the compare-exchange on top settles the race.
PopCas ==
    /\ owner.pc = "cas"
    /\ \/ /\ top = owner.t
          /\ top' = Wrap(owner.t + 1)
          /\ Take(owner.x)
          /\ owner' = Idle
       \/ /\ top # owner.t
          /\ owner' = [Idle EXCEPT !.got = FALSE]
          /\ UNCHANGED <<top, taken>>
    /\ Restore
    /\ UNCHANGED <<mem, thief, pushed>>

-----------------------------------------------------------------------------
(* steal, by thread i, one load after the other.                           *)

StealTop(i) ==
    /\ thief[i].pc \in {"idle", "top"}
    /\ thief' = [thief EXCEPT ![i] = [NoSteal EXCEPT !.pc = "bottom", !.t = top]]
    /\ UNCHANGED <<mem, own, top, buf, owner, pushed, taken>>

StealBottom(i) ==
    /\ thief[i].pc = "bottom"
    /\ thief' = IF ToSigned(mem[Bottom] - thief[i].t) <= 0
                THEN [thief EXCEPT ![i] = NoSteal]
                ELSE [thief EXCEPT ![i].pc = "array"]
    /\ UNCHANGED <<mem, own, top, buf, owner, pushed, taken>>

StealArray(i) ==
    /\ thief[i].pc = "array"
    /\ thief' = [thief EXCEPT ![i].pc = "get", ![i].a = mem[Array]]
    /\ UNCHANGED <<mem, own, top, buf, owner, pushed, taken>>

StealGet(i) ==
    /\ thief[i].pc = "get"
    /\ thief' = [thief EXCEPT ![i].pc = "cas",
                              ![i].x = mem[Cell(thief[i].a, thief[i].t)]]
    /\ UNCHANGED <<mem, own, top, buf, owner, pushed, taken>>

\* A failed compare-exchange starts the loop again.
StealCas(i) ==
    /\ thief[i].pc = "cas"
    /\ \/ /\ top = thief[i].t
          /\ top' = Wrap(top + 1)
          /\ Take(thief[i].x)
          /\ thief' = [thief EXCEPT ![i] = NoSteal]
       \/ /\ top # thief[i].t
          /\ thief' = [thief EXCEPT ![i] = [NoSteal EXCEPT !.pc = "top"]]
          /\ UNCHANGED <<top, taken>>
    /\ UNCHANGED <<mem, own, buf, owner, pushed>>

\* The steps of a steal that was called.
StealStep(i) ==
    \/ thief[i].pc = "top" /\ StealTop(i)
    \/ StealBottom(i) \/ StealArray(i) \/ StealGet(i) \/ StealCas(i)

PopStep == PopTop \/ PopCas

DequeNext ==
    \/ Flush \/ Push \/ PopBegin \/ PopStep
    \/ \E i \in Thieves : StealTop(i) \/ StealStep(i)

DequeSpec == DequeInit /\ [][DequeNext]_dequeVars

\* Stores reach memory, and an operation that was called runs on.  Nobody has
\* to call one.
DequeFairSpec ==
    /\ DequeSpec
    /\ WF_dequeVars(Flush)
    /\ WF_dequeVars(PopStep)
    /\ \A i \in Thieves : WF_dequeVars(StealStep(i))

-----------------------------------------------------------------------------
\* pop has lowered bottom in memory but not decided yet.
Lowered == owner.pc = "cas" \/ (owner.pc = "fence" /\ buf = <<>>)

\* The queued tasks.  The element that a pop is after still counts.
Content ==
    LET n == ToSigned(mem[Bottom] - top) + IF Lowered THEN 1 ELSE 0
    IN  [k \in 1 .. n |-> own[Cell(own[Array], top + k - 1)]]

DequeTypeOK ==
    /\ mem[Bottom] \in 0 .. Word - 1
    /\ mem[Array] \in Nat
    /\ \A loc \in DOMAIN mem \ {Bottom, Array} : mem[loc] \in TaskIds \cup {Null}
    /\ top \in 0 .. Word - 1
    /\ \A k \in DOMAIN buf : buf[k][1] \in DOMAIN mem
    /\ owner.pc \in {"idle", "fence", "cas"}
    /\ owner.pc = "cas" => owner.x \in TaskIds
    /\ \A i \in Thieves :
          /\ thief[i].pc \in {"idle", "top", "bottom", "array", "get", "cas"}
          /\ thief[i].a \in 0 .. mem[Array]
    /\ taken \in [TaskIds -> {0, 1}]

\* The queue is a TaskDeque: whatever the thieves and the store buffer do,
\* every pushed task is handed out at most once, to the owner from the bottom
\* or to a thief from the top, and none is lost, also when the array grows or
\* the indices wrap around under a running steal.
Abstract == INSTANCE TaskDeque WITH Tasks <- TaskIds, deque <- Content
IsTaskDeque == Abstract!Spec

\* pop comes back empty-handed only when nothing is queued (thread_task_loop
\* then leaves its own queue for those of others).
EmptyPopMeansEmpty == ~ owner.got => Content = <<>>

\* A compare-exchange can fail only because another thread took a task, so
\* every pop and every steal that was called returns.
OperationsReturn ==
    /\ owner.pc # "idle" ~> owner.pc = "idle"
    /\ \A i \in Thieves : thief[i].pc # "idle" ~> thief[i].pc = "idle"
=============================================================================
