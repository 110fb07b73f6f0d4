--------------------------- MODULE EventTaskProofs ---------------------------
(***************************************************************************)
(* Theorems about EventTask, for any number of threads and continuations:  *)
(* it implements TaskPromise, frees its task only when nobody uses it, and *)
(* loses no continuation.                                                  *)
(***************************************************************************)
EXTENDS EventTask, FiniteSetTheorems, SequenceTheorems, TLAPS

\* Where the finisher that has claimed the event can be.
Working == {"store", "publish", "lock", "inline", "mutex", "flush"}

\* Where a thread has made its continuation and not got rid of it.
Adding == {"state", "word", "swap", "mutex", "recheck", "push", "run"}

FinPcs == {"start", "abandon", "release", "done"} \cup Working
AddPcs == {"make", "release", "done"} \cup Adding
Words == [elem : Conts \cup {None}, vector : BOOLEAN, locked : BOOLEAN]
States == {"pending", "locked", "completed", "canceled"}

\* The type invariant, with the program counters and locals of the threads.
Types ==
    /\ state \in States
    /\ data \in Words
    /\ vec \in Seq(Conts)
    /\ refs \in Nat
    /\ fin \in [Finishers -> [pc : FinPcs, op : {"value", "exception"}]]
    /\ add \in [Conts -> [pc : AddPcs, seen : States, exp : Words]]
    /\ cont \in [Conts -> {"new", "made", "scheduled", "canceled", "done"}]

\* At most one thread finishes the event, and where it is tells the state and
\* whether the continuations are locked.
ClaimInv ==
    /\ \A s, t \in Finishers : fin[s].pc \in Working /\ fin[t].pc \in Working => s = t
    /\ \A s \in Finishers :
          /\ fin[s].pc \in {"store", "publish"} => state = "locked"
          /\ fin[s].pc \in {"lock", "inline", "mutex", "flush"} =>
                state = IF fin[s].op = "value" THEN "completed" ELSE "canceled"
          /\ fin[s].pc = "lock" => ~ data.locked
          /\ fin[s].pc = "inline" => data.locked /\ ~ data.vector
          /\ fin[s].pc \in {"mutex", "flush"} => data.locked /\ data.vector
          /\ fin[s].pc = "flush" => mutex = s
    /\ data.locked => IsFinished(state)
    /\ state = "locked" => \E s \in Finishers : fin[s].pc \in {"store", "publish"}
    /\ IsFinished(state) => data.locked \/ \E s \in Finishers : fin[s].pc = "lock"

\* The owner comes last, and lets go of a task that nobody has finished only if
\* it alone refers to it.
OwnerInv ==
    /\ fin[Owner].pc # "start" => \A s \in Setters : fin[s].pc = "done"
    /\ \A s \in Finishers : fin[s].pc \in {"abandon", "release"} => s = Owner
    /\ fin[Owner].pc \in {"release", "done"} =>
          IsFinished(state) \/ \A c \in Conts : add[c].pc = "done" /\ cont[c] # "made"

AddInv ==
    \A c \in Conts :
       /\ cont[c] = "new" <=> add[c].pc = "make"
       /\ add[c].pc \in Adding => cont[c] = "made"
       /\ add[c].pc = "run" => IsFinished(state)
       /\ IsFinished(add[c].seen) => state = add[c].seen
       /\ add[c].pc = "swap" => ~ add[c].exp.locked /\ ~ add[c].exp.vector
       /\ add[c].pc \in {"mutex", "recheck", "push"} => data.vector
       /\ add[c].pc \in {"recheck", "push"} => mutex = c
       /\ add[c].pc = "push" => ~ data.locked \/ \E s \in Finishers : fin[s].pc = "mutex"

\* The continuation is in the word, or in the vector, and will be flushed.
InWord(c) == data.elem = c /\ (~ data.locked \/ \E s \in Finishers : fin[s].pc = "inline")
InVector(c) == \E i \in 1 .. Len(vec) : vec[i] = c

\* A continuation that was added and not handled is in one place, once.
StoreInv ==
    /\ data.vector => data.elem = None
    /\ vec # <<>> => /\ data.vector
                     /\ ~ data.locked \/ \E s \in Finishers : fin[s].pc \in {"mutex", "flush"}
    /\ \A i, j \in 1 .. Len(vec) : vec[i] = vec[j] => i = j
    /\ \A c \in Conts : InWord(c) \/ InVector(c) <=>
                           cont[c] = "made" /\ add[c].pc \in {"release", "done"}

\* Who holds a reference: the event, the threads that add, the functions.
Adders == {c \in Conts : add[c].pc # "done"}
Referring == {c \in Conts : cont[c] \in {"made", "scheduled"}}
RefInv == refs = (IF fin[Owner].pc = "done" THEN 0 ELSE 1)
                    + Cardinality(Adders) + Cardinality(Referring)

IInv == Types /\ ClaimInv /\ OwnerInv /\ AddInv /\ StoreInv /\ RefInv

\* No continuation is lost: when all threads have returned, each has been handled.
NoneLost == Returned => \A c \in Conts : cont[c] \in {"scheduled", "canceled", "done"}

-----------------------------------------------------------------------------
(* How the threads move.                                                    *)

\* Finisher s is at pc afterwards, with op, and the others are where they were.
FinMoves(s, pc, op) ==
    /\ fin'[s].pc = pc /\ fin'[s].op = op
    /\ \A t \in Finishers : t # s => fin'[t] = fin[t]
    /\ fin' \in [Finishers -> [pc : FinPcs, op : {"value", "exception"}]]

LEMMA FinGotoMoves ==
    ASSUME Types, NEW s \in Finishers, NEW pc \in FinPcs, FinGoto(s, pc)
    PROVE  FinMoves(s, pc, fin[s].op)
<1>1. fin' = [fin EXCEPT ![s] = [fin[s] EXCEPT !.pc = pc]]
  BY DEF FinGoto
<1>2. fin[s] \in [pc : FinPcs, op : {"value", "exception"}]
  BY DEF Types
<1>3. [fin[s] EXCEPT !.pc = pc] \in [pc : FinPcs, op : {"value", "exception"}]
  BY <1>2
<1> QED
  BY <1>1, <1>2, <1>3 DEF FinMoves, Types

LEMMA FinReturnMoves ==
    ASSUME Types, NEW s \in Finishers, FinReturn(s)
    PROVE  FinMoves(s, IF s = Owner THEN "release" ELSE "done", "exception")
BY DEF FinReturn, FinAt, FinMoves, Types, FinPcs

\* The same of the thread that adds c.
AddMoves(c, pc, seen, exp) ==
    /\ add'[c].pc = pc /\ add'[c].seen = seen /\ add'[c].exp = exp
    /\ \A d \in Conts : d # c => add'[d] = add[d]
    /\ add' \in [Conts -> [pc : AddPcs, seen : States, exp : Words]]

LEMMA AddGotoMoves ==
    ASSUME Types, NEW c \in Conts, NEW pc \in AddPcs, AddGoto(c, pc)
    PROVE  AddMoves(c, pc, add[c].seen, add[c].exp)
<1>1. add' = [add EXCEPT ![c] = [add[c] EXCEPT !.pc = pc]]
  BY DEF AddGoto
<1>2. add[c] \in [pc : AddPcs, seen : States, exp : Words]
  BY DEF Types
<1>3. [add[c] EXCEPT !.pc = pc] \in [pc : AddPcs, seen : States, exp : Words]
  BY <1>2
<1> QED
  BY <1>1, <1>2, <1>3 DEF AddMoves, Types

LEMMA AddReturnMoves ==
    ASSUME Types, NEW c \in Conts, AddReturn(c)
    PROVE  AddMoves(c, "release", "pending", EmptyWord)
BY DEF AddReturn, AddAt, AddMoves, Types, AddPcs, States, Words, EmptyWord

LEMMA BranchMoves ==
    ASSUME Types, NEW c \in Conts, Branch(c)
    PROVE  \E pc \in {"run", "mutex", "swap"} :
              /\ AddMoves(c, pc, add[c].seen, data)
              /\ pc = "run" => data.locked
              /\ pc = "mutex" => data.vector
              /\ pc = "swap" => ~ data.locked /\ ~ data.vector
<1> DEFINE pc == IF data.locked THEN "run" ELSE IF data.vector THEN "mutex" ELSE "swap"
<1>1. add' = [add EXCEPT ![c] = [[add[c] EXCEPT !.exp = data] EXCEPT !.pc = pc]]
  BY DEF Branch
<1>2. add[c] \in [pc : AddPcs, seen : States, exp : Words] /\ data \in Words
  BY DEF Types
<1>3. pc \in {"run", "mutex", "swap"} /\ pc \in AddPcs
  BY DEF AddPcs, Adding
<1>4. [[add[c] EXCEPT !.exp = data] EXCEPT !.pc = pc] \in [pc : AddPcs, seen : States, exp : Words]
  BY <1>2, <1>3
<1>5. AddMoves(c, pc, add[c].seen, data)
  BY <1>1, <1>2, <1>4 DEF AddMoves, Types
<1> QED
  BY <1>3, <1>5

\* Counting continuations.
LEMMA Counted ==
    ASSUME NEW S \in SUBSET Conts
    PROVE  /\ IsFiniteSet(S)
           /\ Cardinality(S) \in Nat
           /\ Cardinality(S) = 0 <=> S = {}
           /\ \A c \in S : Cardinality(S \ {c}) = Cardinality(S) - 1
           /\ \A c \in Conts : c \notin S => Cardinality(S \cup {c}) = Cardinality(S) + 1
<1>1. IsFiniteSet(S)
  BY EventTaskAssumption, FS_Subset
<1>2. Cardinality(S) \in Nat
  BY <1>1, FS_CardinalityType
<1>3. Cardinality(S) = 0 <=> S = {}
  BY <1>1, FS_EmptySet
<1>4. \A c \in S : Cardinality(S \ {c}) = Cardinality(S) - 1
  BY <1>1, FS_RemoveElement
<1>5. \A c \in Conts : c \notin S => Cardinality(S \cup {c}) = Cardinality(S) + 1
  BY <1>1, FS_AddElement
<1> QED
  BY <1>1, <1>2, <1>3, <1>4, <1>5

-----------------------------------------------------------------------------
(* Finishing: one lemma for each action.                                    *)

LEMMA InitInv == EventInit => IInv
<1> SUFFICES ASSUME EventInit PROVE IInv
  OBVIOUS
<1> USE EventTaskAssumption
<1>1. Cardinality(Conts) \in Nat /\ Adders = Conts /\ Referring = {} /\ Cardinality({}) = 0
  BY Counted, FS_EmptySet DEF EventInit, Adders, Referring, AddAt
<1>2. Types
  BY <1>1 DEF EventInit, Types, States, Words, EmptyWord, FinAt, AddAt, FinPcs, AddPcs
<1>3. RefInv
  BY <1>1 DEF EventInit, RefInv, FinAt, Finishers
<1>4. ClaimInv /\ OwnerInv
  BY DEF EventInit, ClaimInv, OwnerInv, Working, FinAt, EmptyWord, IsFinished, Finishers
<1>5. AddInv
  BY DEF EventInit, AddInv, Adding, AddAt
<1>6. StoreInv
  BY DEF EventInit, StoreInv, InWord, InVector, AddAt, EmptyWord
<1> QED
  BY <1>2, <1>3, <1>4, <1>5, <1>6 DEF IInv

LEMMA LeaveInv == ASSUME IInv, NEW s \in Finishers, Leave(s) PROVE IInv'
<1> USE EventTaskAssumption
<1>0. Types /\ ClaimInv /\ OwnerInv /\ AddInv /\ StoreInv /\ RefInv
  BY DEF IInv
<1>1. s # Owner /\ fin[s].pc = "start" /\ FinMoves(s, "done", fin[s].op)
  BY <1>0, FinGotoMoves DEF Leave, FinPcs
<1>2. Types'
  BY <1>0, <1>1 DEF Leave, vectorVars, Types, FinMoves
<1>3. ClaimInv'
  BY <1>0, <1>1 DEF Leave, vectorVars, ClaimInv, FinMoves, Working
<1>4. OwnerInv'
  BY <1>0, <1>1 DEF Leave, vectorVars, OwnerInv, FinMoves, Finishers
<1>5. AddInv'
  BY <1>0, <1>1 DEF Leave, vectorVars, AddInv, FinMoves
<1>6. StoreInv'
  BY <1>0, <1>1 DEF Leave, vectorVars, StoreInv, InWord, InVector, FinMoves
<1>7. RefInv'
  BY <1>0, <1>1 DEF Leave, RefInv, Adders, Referring, FinMoves, Finishers
<1> QED
  BY <1>2, <1>3, <1>4, <1>5, <1>6, <1>7 DEF IInv

LEMMA DestroyInv == ASSUME IInv, Destroy PROVE IInv'
<1> USE EventTaskAssumption
<1>0. Types /\ ClaimInv /\ OwnerInv /\ AddInv /\ StoreInv /\ RefInv
  BY DEF IInv
<1>1. PICK pc \in {"release", "abandon"} :
         /\ FinMoves(Owner, pc, fin[Owner].op)
         /\ pc = "release" => IsFinished(state) \/ refs = 1
  BY <1>0, FinGotoMoves DEF Destroy, FinPcs, Finishers
<1>2. Types'
  BY <1>0, <1>1 DEF Destroy, vectorVars, Types, FinMoves
<1>3. ClaimInv'
  BY <1>0, <1>1 DEF Destroy, vectorVars, ClaimInv, FinMoves, Working
<1>4. OwnerInv'
  <2>1. refs = 1 => Adders = {} /\ Referring = {}
    <3>1. Adders \in SUBSET Conts /\ Referring \in SUBSET Conts
      BY DEF Adders, Referring
    <3> QED
      BY <1>0, <3>1, Counted DEF RefInv, Destroy
  <2>2. refs = 1 => \A c \in Conts : add[c].pc = "done" /\ cont[c] # "made"
    BY <2>1 DEF Adders, Referring
  <2> QED
    BY <1>0, <1>1, <2>2 DEF Destroy, vectorVars, OwnerInv, FinMoves, Finishers
<1>5. AddInv'
  BY <1>0, <1>1 DEF Destroy, vectorVars, AddInv, FinMoves
<1>6. StoreInv'
  BY <1>0, <1>1 DEF Destroy, vectorVars, StoreInv, InWord, InVector, FinMoves
<1>7. RefInv'
  BY <1>0, <1>1 DEF Destroy, RefInv, Adders, Referring, FinMoves, Finishers
<1> QED
  BY <1>2, <1>3, <1>4, <1>5, <1>6, <1>7 DEF IInv

LEMMA ClaimKeeps == ASSUME IInv, NEW s \in Finishers, Claim(s) PROVE IInv'
<1> USE EventTaskAssumption
<1>0. Types /\ ClaimInv /\ OwnerInv /\ AddInv /\ StoreInv /\ RefInv
  BY DEF IInv
<1>a. fin[s].pc = IF s = Owner THEN "abandon" ELSE "start"
  BY DEF Claim
<1>b. CASE /\ state = "pending" /\ state' = "locked"
           /\ \E op \in {"value", "exception"} : FinMoves(s, "store", op)
  <2>2. Types'
    BY <1>0, <1>b DEF Claim, vectorVars, Types, FinMoves, States
  <2>3. ClaimInv'
    BY <1>0, <1>a, <1>b DEF Claim, vectorVars, ClaimInv, FinMoves, Working, IsFinished
  <2>4. OwnerInv'
    BY <1>0, <1>a, <1>b DEF Claim, vectorVars, OwnerInv, FinMoves, Finishers, IsFinished
  <2>5. AddInv'
    BY <1>0, <1>a, <1>b DEF Claim, vectorVars, AddInv, FinMoves, IsFinished
  <2>6. StoreInv'
    BY <1>0, <1>a, <1>b DEF Claim, vectorVars, StoreInv, InWord, InVector, FinMoves
  <2>7. RefInv'
    BY <1>0, <1>a, <1>b DEF Claim, RefInv, Adders, Referring, FinMoves, Finishers
  <2> QED
    BY <2>2, <2>3, <2>4, <2>5, <2>6, <2>7 DEF IInv
<1>c. CASE /\ state # "pending" /\ state' = state
           /\ FinMoves(s, IF s = Owner THEN "release" ELSE "done", "exception")
  <2>2. Types'
    BY <1>0, <1>c DEF Claim, vectorVars, Types, FinMoves
  <2>3. ClaimInv'
    BY <1>0, <1>a, <1>c DEF Claim, vectorVars, ClaimInv, FinMoves, Working
  <2>4. OwnerInv'
    BY <1>0, <1>a, <1>c DEF Claim, vectorVars, OwnerInv, ClaimInv, Types, States, FinMoves, Finishers, IsFinished
  <2>5. AddInv'
    BY <1>0, <1>a, <1>c DEF Claim, vectorVars, AddInv, FinMoves
  <2>6. StoreInv'
    BY <1>0, <1>a, <1>c DEF Claim, vectorVars, StoreInv, InWord, InVector, FinMoves
  <2>7. RefInv'
    BY <1>0, <1>a, <1>c DEF Claim, RefInv, Adders, Referring, FinMoves, Finishers
  <2> QED
    BY <2>2, <2>3, <2>4, <2>5, <2>6, <2>7 DEF IInv
<1>d. CASE state = "pending"
  <2>1. PICK op \in {"value", "exception"} : fin' = [fin EXCEPT ![s] = [pc |-> "store", op |-> op]]
    BY <1>d DEF Claim
  <2>2. FinMoves(s, "store", op)
    BY <1>0, <2>1 DEF FinMoves, Types, FinPcs, Working
  <2> QED
    BY <1>b, <1>d, <2>2 DEF Claim
<1>e. CASE state # "pending"
  BY <1>0, <1>c, <1>e, FinReturnMoves DEF Claim
<1> QED
  BY <1>d, <1>e

LEMMA StoreResultInv == ASSUME IInv, NEW s \in Finishers, StoreResult(s) PROVE IInv'
<1> USE EventTaskAssumption
<1>0. Types /\ ClaimInv /\ OwnerInv /\ AddInv /\ StoreInv /\ RefInv
  BY DEF IInv
<1>1. fin[s].pc = "store" /\ \E op \in {"value", "exception"} : FinMoves(s, "publish", op)
  <2>1. PICK op \in {"value", "exception"} : fin' = [fin EXCEPT ![s] = [pc |-> "publish", op |-> op]]
    BY <1>0 DEF StoreResult, Types
  <2>2. FinMoves(s, "publish", op)
    BY <1>0, <2>1 DEF FinMoves, Types, FinPcs, Working
  <2> QED
    BY <2>2 DEF StoreResult
<1>2. Types'
  BY <1>0, <1>1 DEF StoreResult, vectorVars, Types, FinMoves
<1>3. ClaimInv'
  BY <1>0, <1>1 DEF StoreResult, vectorVars, ClaimInv, FinMoves, Working, IsFinished
<1>4. OwnerInv'
  BY <1>0, <1>1 DEF StoreResult, vectorVars, OwnerInv, FinMoves, Finishers, Working, IsFinished
<1>5. AddInv'
  BY <1>0, <1>1 DEF StoreResult, vectorVars, AddInv, FinMoves, IsFinished
<1>6. StoreInv'
  BY <1>0, <1>1 DEF StoreResult, vectorVars, StoreInv, InWord, InVector, FinMoves
<1>7. RefInv'
  BY <1>0, <1>1 DEF StoreResult, vectorVars, RefInv, Adders, Referring, FinMoves, Finishers
<1> QED
  BY <1>2, <1>3, <1>4, <1>5, <1>6, <1>7 DEF IInv

LEMMA PublishInv == ASSUME IInv, NEW s \in Finishers, Publish(s) PROVE IInv'
<1> USE EventTaskAssumption
<1>0. Types /\ ClaimInv /\ OwnerInv /\ AddInv /\ StoreInv /\ RefInv
  BY DEF IInv
<1>1. /\ fin[s].pc = "publish" /\ state = "locked" /\ FinMoves(s, "lock", fin[s].op)
      /\ state' = IF fin[s].op = "value" THEN "completed" ELSE "canceled"
  BY <1>0, FinGotoMoves DEF Publish, FinPcs, Working, ClaimInv
<1>2. Types'
  BY <1>0, <1>1 DEF Publish, vectorVars, Types, FinMoves, States
<1>3. ClaimInv'
  BY <1>0, <1>1 DEF Publish, vectorVars, ClaimInv, FinMoves, Working, IsFinished
<1>4. OwnerInv'
  BY <1>0, <1>1 DEF Publish, vectorVars, OwnerInv, FinMoves, Finishers, Working, IsFinished
<1>5. AddInv'
  BY <1>0, <1>1 DEF Publish, vectorVars, AddInv, FinMoves, IsFinished
<1>6. StoreInv'
  BY <1>0, <1>1 DEF Publish, vectorVars, StoreInv, InWord, InVector, FinMoves
<1>7. RefInv'
  BY <1>0, <1>1 DEF Publish, vectorVars, RefInv, Adders, Referring, FinMoves, Finishers
<1> QED
  BY <1>2, <1>3, <1>4, <1>5, <1>6, <1>7 DEF IInv

\* What has been added until now will be flushed from where it is.
LEMMA LockVectorInv == ASSUME IInv, NEW s \in Finishers, LockVector(s) PROVE IInv'
<1> USE EventTaskAssumption
<1>0. Types /\ ClaimInv /\ OwnerInv /\ AddInv /\ StoreInv /\ RefInv
  BY DEF IInv
<1>1. /\ fin[s].pc = "lock" /\ ~ data.locked
      /\ FinMoves(s, IF data.vector THEN "mutex" ELSE "inline", fin[s].op)
  BY <1>0, FinGotoMoves DEF LockVector, FinPcs, Working, ClaimInv
<1>a. data'.locked /\ data'.elem = data.elem /\ data'.vector = data.vector /\ data' \in Words
  BY <1>0 DEF LockVector, Types, Words
<1>2. Types'
  BY <1>0, <1>1, <1>a DEF LockVector, Types, FinMoves
<1>3. ClaimInv'
  BY <1>0, <1>1, <1>a DEF LockVector, ClaimInv, FinMoves, Working, IsFinished
<1>4. OwnerInv'
  BY <1>0, <1>1, <1>a DEF LockVector, OwnerInv, FinMoves, Finishers, Working, IsFinished
<1>5. AddInv'
  BY <1>0, <1>1, <1>a DEF LockVector, AddInv, FinMoves, IsFinished
<1>6. StoreInv'
  BY <1>0, <1>1, <1>a DEF LockVector, StoreInv, InWord, InVector, FinMoves
<1>7. RefInv'
  BY <1>0, <1>1, <1>a DEF LockVector, RefInv, Adders, Referring, FinMoves, Finishers
<1> QED
  BY <1>2, <1>3, <1>4, <1>5, <1>6, <1>7 DEF IInv

\* What handling does to the continuation, and that the count stays right.
Handled(c) ==
    /\ cont' \in [Conts -> {"new", "made", "scheduled", "canceled", "done"}]
    /\ cont'[c] \in {"canceled", "scheduled"}
    /\ \A d \in Conts : d # c => cont'[d] = cont[d]
    /\ refs' \in Nat
    /\ Cardinality(Referring) \in Nat /\ Cardinality(Referring') \in Nat
    /\ refs' + Cardinality(Referring) = refs + Cardinality(Referring')

LEMMA HandleKeepsCount ==
    ASSUME Types, RefInv, NEW c \in Conts, NEW cancel, cont[c] = "made", Handle(c, cancel)
    PROVE  Handled(c)
<1>1. Referring \in SUBSET Conts /\ Adders \in SUBSET Conts /\ c \in Referring
  BY DEF Referring, Adders
<1>2. Cardinality(Referring) \in Nat \ {0} /\ Cardinality(Adders) \in Nat
  BY <1>1, Counted
<1>3. CASE cont' = [cont EXCEPT ![c] = "canceled"] /\ refs' = refs - 1
  <2>1. Referring' = Referring \ {c}
    BY <1>3 DEF Types, Referring
  <2>2. Cardinality(Referring') = Cardinality(Referring) - 1
    BY <1>1, <2>1, Counted
  <2>3. refs \in Nat /\ refs >= Cardinality(Referring)
    BY <1>2 DEF RefInv, Types
  <2>4. refs' \in Nat /\ refs' + Cardinality(Referring) = refs + Cardinality(Referring')
    BY <1>2, <1>3, <2>2, <2>3
  <2>5. Cardinality(Referring') \in Nat
    BY <1>2, <2>2
  <2>6. /\ cont' \in [Conts -> {"new", "made", "scheduled", "canceled", "done"}]
        /\ cont'[c] = "canceled" /\ \A d \in Conts : d # c => cont'[d] = cont[d]
    BY <1>3 DEF Types
  <2> QED
    BY <1>2, <2>4, <2>5, <2>6 DEF Handled
<1>4. CASE cont' = [cont EXCEPT ![c] = "scheduled"] /\ refs' = refs
  <2>1. Referring' = Referring
    BY <1>4 DEF Types, Referring
  <2> QED
    BY <1>2, <1>4, <2>1 DEF Types, Handled
<1> QED
  BY <1>3, <1>4 DEF Handle

\* The continuation in the word is handled; it is not in the word any more.
LEMMA FlushInlineInv == ASSUME IInv, NEW s \in Finishers, FlushInline(s) PROVE IInv'
<1> USE EventTaskAssumption
<1>0. Types /\ ClaimInv /\ OwnerInv /\ AddInv /\ StoreInv /\ RefInv
  BY DEF IInv
<1>1. fin[s].pc = "inline" /\ FinMoves(s, IF s = Owner THEN "release" ELSE "done", "exception")
  BY <1>0, FinReturnMoves DEF FlushInline
<1>a. data.locked /\ ~ data.vector /\ IsFinished(state) /\ vec = <<>>
  BY <1>0, <1>1 DEF ClaimInv, StoreInv, IsFinished
<1>b. \A t \in Finishers : t # s => fin[t].pc \notin Working
  BY <1>0, <1>1 DEF ClaimInv, Working
<1>c. \/ data.elem = None /\ UNCHANGED <<cont, refs>>
      \/ /\ data.elem \in Conts /\ cont[data.elem] = "made"
         /\ add[data.elem].pc \in {"release", "done"} /\ Handled(data.elem)
  <2>1. CASE data.elem = None
    BY <2>1 DEF FlushInline
  <2>2. CASE data.elem # None
    <3>1. data.elem \in Conts
      BY <1>0, <2>2 DEF Types, Words
    <3>2. cont[data.elem] = "made" /\ add[data.elem].pc \in {"release", "done"}
      BY <1>0, <1>1, <3>1 DEF StoreInv, InWord
    <3> QED
      BY <1>0, <2>2, <3>1, <3>2, HandleKeepsCount DEF FlushInline
  <2> QED
    BY <2>1, <2>2
<1>2. Types'
  BY <1>0, <1>1, <1>a, <1>b, <1>c DEF FlushInline, vectorVars, Types, FinMoves, Handled
<1>3. ClaimInv'
  BY <1>0, <1>1, <1>a, <1>b, <1>c DEF FlushInline, vectorVars, ClaimInv, FinMoves, Working, IsFinished
<1>4. OwnerInv'
  BY <1>0, <1>1, <1>a, <1>b, <1>c DEF FlushInline, vectorVars, OwnerInv, FinMoves, Finishers, Working, IsFinished, Handled
<1>5. AddInv'
  BY <1>0, <1>1, <1>a, <1>b, <1>c DEF FlushInline, vectorVars, AddInv, FinMoves, IsFinished, Handled, Adding
<1>6. StoreInv'
  <2>1. \A c \in Conts : ~ InWord(c)' /\ ~ InVector(c)'
    BY <1>0, <1>1, <1>a, <1>b DEF FlushInline, vectorVars, InWord, InVector, FinMoves, Working
  <2>2. \A c \in Conts : c # data.elem => ~ InWord(c) /\ ~ InVector(c)
    BY <1>a DEF InWord, InVector
  <2>3. \A c \in Conts : ~ (cont'[c] = "made" /\ add'[c].pc \in {"release", "done"})
    BY <1>0, <1>c, <2>2, EventTaskAssumption DEF FlushInline, StoreInv, Handled
  <2> QED
    BY <1>0, <1>a, <2>1, <2>3 DEF FlushInline, vectorVars, StoreInv
<1>7. RefInv'
  <2>1. Adders' = Adders /\ Cardinality(Adders) \in Nat
    <3>1. Adders \in SUBSET Conts
      BY DEF Adders
    <3> QED
      BY <3>1, Counted DEF FlushInline, Adders
  <2>2. fin'[Owner].pc = "done" <=> fin[Owner].pc = "done"
    BY <1>0, <1>1 DEF FlushInline, FinMoves, Finishers
  <2>3. CASE UNCHANGED <<cont, refs>>
    <3>1. Referring' = Referring
      BY <2>3 DEF Referring
    <3> QED
      BY <1>0, <2>1, <2>2, <2>3, <3>1 DEF RefInv
  <2>4. CASE Handled(data.elem)
    <3>1. /\ refs \in Nat /\ refs' \in Nat
          /\ Cardinality(Referring) \in Nat /\ Cardinality(Referring') \in Nat
          /\ refs' + Cardinality(Referring) = refs + Cardinality(Referring')
      BY <1>0, <2>4 DEF Types, Handled
    <3>2. Cardinality(Adders') = Cardinality(Adders)
      BY <2>1
    <3>3. CASE fin[Owner].pc = "done"
      BY <1>0, <2>1, <2>2, <3>1, <3>2, <3>3 DEF RefInv
    <3>4. CASE fin[Owner].pc # "done"
      BY <1>0, <2>1, <2>2, <3>1, <3>2, <3>4 DEF RefInv
    <3> QED
      BY <3>3, <3>4
  <2> QED
    BY <1>c, <2>3, <2>4
<1> QED
  BY <1>2, <1>3, <1>4, <1>5, <1>6, <1>7 DEF IInv

LEMMA FlushMutexInv == ASSUME IInv, NEW s \in Finishers, FlushMutex(s) PROVE IInv'
<1> USE EventTaskAssumption
<1>0. Types /\ ClaimInv /\ OwnerInv /\ AddInv /\ StoreInv /\ RefInv
  BY DEF IInv
<1>1. /\ fin[s].pc = "mutex" /\ mutex = None /\ mutex' = s /\ FinMoves(s, "flush", fin[s].op)
  BY <1>0, FinGotoMoves DEF FlushMutex, FinPcs, Working
<1>a. \A c \in Conts : add[c].pc \notin {"recheck", "push"}
  BY <1>0, <1>1 DEF AddInv
<1>2. Types'
  BY <1>0, <1>1, <1>a DEF FlushMutex, Types, FinMoves
<1>3. ClaimInv'
  BY <1>0, <1>1, <1>a DEF FlushMutex, ClaimInv, FinMoves, Working, IsFinished
<1>4. OwnerInv'
  BY <1>0, <1>1, <1>a DEF FlushMutex, OwnerInv, FinMoves, Finishers, Working, IsFinished
<1>5. AddInv'
  BY <1>0, <1>1, <1>a DEF FlushMutex, AddInv, FinMoves
<1>6. StoreInv'
  BY <1>0, <1>1, <1>a DEF FlushMutex, StoreInv, InWord, InVector, FinMoves
<1>7. RefInv'
  BY <1>0, <1>1, <1>a DEF FlushMutex, RefInv, Adders, Referring, FinMoves, Finishers
<1> QED
  BY <1>2, <1>3, <1>4, <1>5, <1>6, <1>7 DEF IInv

LEMMA FlushVectorInv == ASSUME IInv, NEW s \in Finishers, FlushVector(s) PROVE IInv'
<1> USE EventTaskAssumption
<1>0. Types /\ ClaimInv /\ OwnerInv /\ AddInv /\ StoreInv /\ RefInv
  BY DEF IInv
<1>1. fin[s].pc = "flush" /\ mutex = s /\ data.vector /\ data.elem = None /\ IsFinished(state)
  BY <1>0 DEF FlushVector, ClaimInv, StoreInv, IsFinished
<1>a. \A c \in Conts : add[c].pc \notin {"recheck", "push"}
  BY <1>0, <1>1 DEF AddInv, Finishers
<1>b. \A t \in Finishers : t # s => fin[t].pc \notin Working
  BY <1>0, <1>1 DEF ClaimInv, Working
<1>c. CASE vec # <<>>
  <2> DEFINE d == Head(vec)
  <2>1. /\ d \in Conts /\ d = vec[1] /\ 1 \in 1 .. Len(vec) /\ vec' \in Seq(Conts)
        /\ Len(vec) \in Nat /\ Len(vec') = Len(vec) - 1
        /\ \A i \in 1 .. Len(vec') : vec'[i] = vec[i + 1]
        /\ \A i \in 1 .. Len(vec) : vec[i] \in Conts
    <3>1. vec \in Seq(Conts) /\ vec' = Tail(vec)
      BY <1>0, <1>c DEF FlushVector, Types
    <3> QED
      BY <1>c, <3>1, HeadTailProperties, LenProperties, ElementOfSeq
  <2>2. cont[d] = "made" /\ add[d].pc \in {"release", "done"}
    BY <1>0, <2>1 DEF StoreInv, InVector
  <2>3. Handled(d)
    BY <1>0, <1>c, <2>1, <2>2, HandleKeepsCount DEF FlushVector
  <2>4. \A c \in Conts : InVector(c)' <=> InVector(c) /\ c # d
    <3> SUFFICES ASSUME NEW c \in Conts PROVE InVector(c)' <=> InVector(c) /\ c # d
      OBVIOUS
    <3>1. ASSUME NEW i \in 1 .. Len(vec), vec[i] = c, c # d PROVE InVector(c)'
      <4>1. i - 1 \in 1 .. Len(vec') /\ vec'[i - 1] = c
        BY <2>1, <3>1
      <4> QED
        BY <4>1 DEF InVector
    <3>2. ASSUME NEW i \in 1 .. Len(vec'), vec'[i] = c PROVE InVector(c) /\ c # d
      <4>1. i + 1 \in 1 .. Len(vec) /\ vec[i + 1] = c /\ i + 1 # 1
        BY <2>1, <3>2
      <4> QED
        BY <1>0, <2>1, <4>1 DEF InVector, StoreInv
    <3> QED
      BY <3>1, <3>2 DEF InVector
  <2> HIDE DEF d
  <2>5. Types'
    BY <1>0, <1>c, <2>1, <2>3 DEF FlushVector, Types, Handled
  <2>6. ClaimInv'
    BY <1>0, <1>c DEF FlushVector, ClaimInv
  <2>7. OwnerInv'
    BY <1>0, <1>c, <2>2, <2>3 DEF FlushVector, OwnerInv, Handled
  <2>8. AddInv'
    BY <1>0, <1>c, <2>2, <2>3 DEF FlushVector, AddInv, Handled, Adding
  <2>9. StoreInv'
    <3>1. \A i, j \in 1 .. Len(vec') : vec'[i] = vec'[j] => i = j
      <4> SUFFICES ASSUME NEW i \in 1 .. Len(vec'), NEW j \in 1 .. Len(vec'), vec'[i] = vec'[j]
                   PROVE  i = j
        OBVIOUS
      <4>1. i + 1 \in 1 .. Len(vec) /\ j + 1 \in 1 .. Len(vec) /\ vec[i + 1] = vec[j + 1]
        BY <2>1
      <4>2. i + 1 = j + 1
        BY <1>0, <4>1 DEF StoreInv
      <4> QED
        BY <4>2
    <3>2. \A c \in Conts : InWord(c)' <=> InWord(c)
      BY <1>0, <1>1, <1>c DEF FlushVector, InWord
    <3>3. \A c \in Conts : ~ InWord(c)
      BY <1>1, EventTaskAssumption DEF InWord
    <3>4. \A c \in Conts : InWord(c)' \/ InVector(c)' <=>
                              cont'[c] = "made" /\ add'[c].pc \in {"release", "done"}
      BY <1>0, <1>c, <2>2, <2>3, <2>4, <3>2, <3>3 DEF FlushVector, StoreInv, Handled
    <3> QED
      BY <1>0, <1>1, <1>c, <3>1, <3>4 DEF FlushVector, StoreInv
  <2>10. RefInv'
    <3>1. Adders' = Adders /\ Cardinality(Adders) \in Nat
      <4>1. Adders \in SUBSET Conts
        BY DEF Adders
      <4> QED
        BY <4>1, Counted DEF FlushVector, Adders
    <3>2. fin' = fin
      BY <1>c DEF FlushVector
    <3>3. refs \in Nat /\ refs = (IF fin[Owner].pc = "done" THEN 0 ELSE 1)
                                   + Cardinality(Adders) + Cardinality(Referring)
      BY <1>0 DEF RefInv, Types
    <3>4. refs' + Cardinality(Referring) = refs + Cardinality(Referring')
          /\ refs' \in Nat /\ Cardinality(Referring) \in Nat /\ Cardinality(Referring') \in Nat
      BY <2>3 DEF Handled
    <3> QED
      BY <3>1, <3>2, <3>3, <3>4 DEF RefInv
  <2> QED
    BY <2>5, <2>6, <2>7, <2>8, <2>9, <2>10 DEF IInv
<1>d. CASE vec = <<>>
  <2>1. FinMoves(s, IF s = Owner THEN "release" ELSE "done", "exception")
    BY <1>0, <1>d, FinReturnMoves DEF FlushVector
  <2>2. Types'
    BY <1>0, <1>d, <2>1 DEF FlushVector, Types, FinMoves
  <2>3. ClaimInv'
    BY <1>0, <1>1, <1>b, <1>d, <2>1 DEF FlushVector, ClaimInv, FinMoves, Working, IsFinished
  <2>4. OwnerInv'
    BY <1>0, <1>1, <1>b, <1>d, <2>1 DEF FlushVector, OwnerInv, FinMoves, Working, Finishers
  <2>5. AddInv'
    BY <1>0, <1>1, <1>a, <1>d, <2>1 DEF FlushVector, AddInv, FinMoves
  <2>6. StoreInv'
    BY <1>0, <1>1, <1>d, <2>1 DEF FlushVector, StoreInv, InWord, InVector, FinMoves
  <2>7. RefInv'
    BY <1>0, <1>1, <1>d, <2>1 DEF FlushVector, RefInv, Adders, Referring, FinMoves, Finishers
  <2> QED
    BY <2>2, <2>3, <2>4, <2>5, <2>6, <2>7 DEF IInv
<1> QED
  BY <1>c, <1>d

LEMMA ReleaseInv == ASSUME IInv, Release PROVE IInv'
<1> USE EventTaskAssumption
<1>0. Types /\ ClaimInv /\ OwnerInv /\ AddInv /\ StoreInv /\ RefInv
  BY DEF IInv
<1>1. fin[Owner].pc = "release" /\ FinMoves(Owner, "done", fin[Owner].op) /\ refs' = refs - 1
  BY <1>0, FinGotoMoves DEF Release, FinPcs, Finishers
<1>a. Cardinality(Adders) \in Nat /\ Cardinality(Referring) \in Nat
  <2>1. Adders \in SUBSET Conts /\ Referring \in SUBSET Conts
    BY DEF Adders, Referring
  <2> QED
    BY <2>1, Counted
<1>2. Types'
  BY <1>0, <1>1, <1>a DEF Release, vectorVars, Types, FinMoves, RefInv
<1>3. ClaimInv'
  BY <1>0, <1>1 DEF Release, vectorVars, ClaimInv, FinMoves, Working
<1>4. OwnerInv'
  BY <1>0, <1>1 DEF Release, vectorVars, OwnerInv, FinMoves, Finishers
<1>5. AddInv'
  BY <1>0, <1>1 DEF Release, vectorVars, AddInv, FinMoves
<1>6. StoreInv'
  BY <1>0, <1>1 DEF Release, vectorVars, StoreInv, InWord, InVector, FinMoves
<1>7. RefInv'
  BY <1>0, <1>1, <1>a DEF Release, RefInv, Adders, Referring, FinMoves, Finishers
<1> QED
  BY <1>2, <1>3, <1>4, <1>5, <1>6, <1>7 DEF IInv

-----------------------------------------------------------------------------
(* Adding: one lemma for each action.                                       *)

LEMMA MakeInv == ASSUME IInv, NEW c \in Conts, Make(c) PROVE IInv'
<1> USE EventTaskAssumption
<1>0. Types /\ ClaimInv /\ OwnerInv /\ AddInv /\ StoreInv /\ RefInv
  BY DEF IInv
<1>1. add[c].pc = "make" /\ cont[c] = "new" /\ AddMoves(c, "state", add[c].seen, add[c].exp)
  BY <1>0, AddGotoMoves DEF Make, AddInv, AddPcs, Adding
<1>a. cont' = [cont EXCEPT ![c] = "made"] /\ refs' = refs + 1
  BY DEF Make
<1>b. cont'[c] = "made" /\ \A d \in Conts : d # c => cont'[d] = cont[d]
  BY <1>0, <1>a DEF Types
<1>2. Types'
  BY <1>0, <1>1, <1>a DEF Make, vectorVars, Types, AddMoves
<1>3. ClaimInv'
  BY <1>0, <1>1, <1>a DEF Make, vectorVars, ClaimInv, AddMoves
<1>4. OwnerInv'
  BY <1>0, <1>1, <1>a DEF Make, vectorVars, OwnerInv, AddMoves
<1>5. AddInv'
  BY <1>0, <1>1, <1>b DEF Make, vectorVars, AddInv, AddMoves, Adding, IsFinished
<1>6. StoreInv'
  BY <1>0, <1>1, <1>a DEF Make, vectorVars, StoreInv, InWord, InVector, AddMoves
<1>7. RefInv'
  <2>1. Adders' = Adders /\ Referring' = Referring \cup {c} /\ c \notin Referring
    BY <1>0, <1>1, <1>a DEF Types, Adders, Referring, AddMoves
  <2>2. Adders \in SUBSET Conts /\ Referring \in SUBSET Conts
    BY DEF Adders, Referring
  <2>3. /\ Cardinality(Referring') = Cardinality(Referring) + 1 /\ Cardinality(Adders') = Cardinality(Adders)
        /\ Cardinality(Adders) \in Nat /\ Cardinality(Referring) \in Nat
    BY <2>1, <2>2, Counted
  <2> QED
    BY <1>0, <1>a, <2>3 DEF Make, RefInv
<1> QED
  BY <1>2, <1>3, <1>4, <1>5, <1>6, <1>7 DEF IInv

LEMMA ReadStateInv == ASSUME IInv, NEW c \in Conts, ReadState(c) PROVE IInv'
<1> USE EventTaskAssumption
<1>0. Types /\ ClaimInv /\ OwnerInv /\ AddInv /\ StoreInv /\ RefInv
  BY DEF IInv
<1>1. add[c].pc = "state" /\ AddMoves(c, IF IsFinished(state) THEN "run" ELSE "word", state, add[c].exp)
  <2> DEFINE pc == IF IsFinished(state) THEN "run" ELSE "word"
  <2>1. add' = [add EXCEPT ![c] = [[add[c] EXCEPT !.seen = state] EXCEPT !.pc = pc]]
    BY DEF ReadState
  <2>2. add[c] \in [pc : AddPcs, seen : States, exp : Words] /\ state \in States /\ pc \in AddPcs
    BY <1>0 DEF Types, AddPcs, Adding
  <2>3. [[add[c] EXCEPT !.seen = state] EXCEPT !.pc = pc] \in [pc : AddPcs, seen : States, exp : Words]
    BY <2>2
  <2> QED
    BY <1>0, <2>1, <2>2, <2>3 DEF ReadState, AddMoves, Types
<1>2. Types'
  BY <1>0, <1>1 DEF ReadState, vectorVars, Types, AddMoves
<1>3. ClaimInv'
  BY <1>0, <1>1 DEF ReadState, vectorVars, ClaimInv, AddMoves
<1>4. OwnerInv'
  BY <1>0, <1>1 DEF ReadState, vectorVars, OwnerInv, AddMoves
<1>5. AddInv'
  BY <1>0, <1>1 DEF ReadState, vectorVars, AddInv, AddMoves, Adding, IsFinished
<1>6. StoreInv'
  BY <1>0, <1>1 DEF ReadState, vectorVars, StoreInv, InWord, InVector, AddMoves
<1>7. RefInv'
  <2>1. Adders' = Adders /\ Referring' = Referring
    BY <1>0, <1>1 DEF ReadState, Adders, Referring, AddMoves
  <2> QED
    BY <1>0, <2>1 DEF ReadState, RefInv
<1> QED
  BY <1>2, <1>3, <1>4, <1>5, <1>6, <1>7 DEF IInv

\* What a thread does with a word it has just read; the compare-exchange that
\* fails does the same.
LEMMA BranchInv ==
    ASSUME IInv, NEW c \in Conts, add[c].pc \in {"word", "swap"}, Branch(c),
           UNCHANGED <<state, content, vectorVars, refs, fin, cont>>
    PROVE  IInv'
<1> USE EventTaskAssumption
<1>0. Types /\ ClaimInv /\ OwnerInv /\ AddInv /\ StoreInv /\ RefInv
  BY DEF IInv
<1>1. PICK pc \in {"run", "mutex", "swap"} :
         /\ AddMoves(c, pc, add[c].seen, data)
         /\ pc = "run" => data.locked
         /\ pc = "mutex" => data.vector
         /\ pc = "swap" => ~ data.locked /\ ~ data.vector
  BY <1>0, BranchMoves
<1>2. Types'
  BY <1>0, <1>1 DEF vectorVars, Types, AddMoves
<1>3. ClaimInv'
  BY <1>0, <1>1 DEF vectorVars, ClaimInv, AddMoves
<1>4. OwnerInv'
  BY <1>0, <1>1 DEF vectorVars, OwnerInv, AddMoves
<1>5. AddInv'
  BY <1>0, <1>1 DEF vectorVars, AddInv, AddMoves, ClaimInv, Adding, IsFinished
<1>6. StoreInv'
  BY <1>0, <1>1 DEF vectorVars, StoreInv, InWord, InVector, AddMoves
<1>7. RefInv'
  <2>1. Adders' = Adders /\ Referring' = Referring
    BY <1>0, <1>1 DEF Adders, Referring, AddMoves
  <2> QED
    BY <1>0, <2>1 DEF RefInv
<1> QED
  BY <1>2, <1>3, <1>4, <1>5, <1>6, <1>7 DEF IInv

LEMMA ReadWordInv == ASSUME IInv, NEW c \in Conts, ReadWord(c) PROVE IInv'
BY BranchInv DEF ReadWord

\* A word that is still the one that was read is neither locked nor a vector:
\* nobody has flushed it, and nobody is at the vector.
LEMMA SwapInv == ASSUME IInv, NEW c \in Conts, Swap(c) PROVE IInv'
<1> USE EventTaskAssumption
<1>0. Types /\ ClaimInv /\ OwnerInv /\ AddInv /\ StoreInv /\ RefInv
  BY DEF IInv
<1>1. CASE data # add[c].exp
  BY <1>1, BranchInv DEF Swap, vectorVars
<1>2. CASE data = add[c].exp
  <2>1. AddMoves(c, "release", "pending", EmptyWord)
    BY <1>0, <1>2, AddReturnMoves DEF Swap
  <2>2. /\ add[c].pc = "swap" /\ cont[c] = "made" /\ ~ data.locked /\ ~ data.vector /\ vec = <<>>
        /\ data.elem \in Conts \cup {None}
    BY <1>0, <1>2 DEF Swap, AddInv, StoreInv, Adding, Types, Words
  <2>3. /\ \A d \in Conts : add[d].pc \notin {"mutex", "recheck", "push"}
        /\ \A s \in Finishers : fin[s].pc \notin {"inline", "mutex", "flush"}
    BY <1>0, <2>2 DEF AddInv, ClaimInv
  <2>a. \A d \in Conts : (data.elem = d) <=> (cont[d] = "made" /\ add[d].pc \in {"release", "done"})
    BY <1>0, <2>2 DEF StoreInv, InWord, InVector
  <2>b. state' = state /\ mutex' = mutex /\ refs' = refs /\ fin' = fin /\ cont' = cont
    BY DEF Swap
  <2>4. \/ /\ data.elem = None
           /\ data' \in Words /\ data'.elem = c /\ ~ data'.locked /\ ~ data'.vector /\ vec' = <<>>
        \/ /\ data.elem \in Conts /\ data.elem # c
           /\ data' \in Words /\ data'.elem = None /\ ~ data'.locked /\ data'.vector
           /\ vec' = <<data.elem, c>>
    <3>1. CASE data.elem = None
      BY <1>0, <1>2, <2>2, <3>1 DEF Swap, Types, Words
    <3>2. CASE data.elem # None
      <4>1. data.elem \in Conts /\ data.elem # c
        BY <2>2, <2>a, <3>2
      <4>2. data' = [elem |-> None, vector |-> TRUE, locked |-> FALSE] /\ vec' = <<data.elem, c>>
        BY <1>2, <3>2 DEF Swap
      <4> QED
        BY <4>1, <4>2 DEF Words
    <3> QED
      BY <3>1, <3>2
  <2>5. Types'
    <3>1. <<>> \in Seq(Conts) /\ \A d \in Conts : <<d, c>> \in Seq(Conts)
      OBVIOUS
    <3>2. vec' \in Seq(Conts) /\ data' \in Words
      BY <2>4, <3>1
    <3> QED
      BY <1>0, <2>1, <2>b, <3>2 DEF Types, AddMoves
  <2>6. ClaimInv'
    BY <1>0, <2>2, <2>3, <2>4, <2>b DEF ClaimInv
  <2>7. OwnerInv'
    BY <1>0, <2>1, <2>2, <2>b DEF OwnerInv, AddMoves, IsFinished
  <2>8. AddInv'
    BY <1>0, <2>1, <2>2, <2>3, <2>4, <2>b DEF AddInv, AddMoves, Adding, IsFinished
  <2>9. StoreInv'
    <3>1. CASE vec' = <<>>
      <4>1. \A d \in Conts : InWord(d)' <=> d = c
        BY <2>2, <2>4, <3>1 DEF InWord
      <4>2. \A d \in Conts : ~ InVector(d)'
        BY <3>1 DEF InVector
      <4>3. \A d \in Conts : cont'[d] = "made" /\ add'[d].pc \in {"release", "done"} <=> d = c
        BY <2>1, <2>2, <2>4, <2>a, <2>b, <3>1, EventTaskAssumption DEF AddMoves
      <4> QED
        BY <2>4, <3>1, <4>1, <4>2, <4>3 DEF StoreInv
    <3>2. CASE vec' # <<>>
      <4>0. /\ data.elem \in Conts /\ data.elem # c /\ data'.elem = None
            /\ ~ data'.locked /\ data'.vector /\ vec' = <<data.elem, c>>
        BY <2>4, <3>2
      <4>1. \A d \in Conts : ~ InWord(d)'
        BY <4>0, EventTaskAssumption DEF InWord
      <4>2. Len(vec') = 2 /\ vec'[1] = data.elem /\ vec'[2] = c
        BY <4>0
      <4>3. \A d \in Conts : InVector(d)' <=> d \in {data.elem, c}
        BY <4>2 DEF InVector
      <4>4. \A d \in Conts : cont'[d] = "made" /\ add'[d].pc \in {"release", "done"} <=>
                                d \in {data.elem, c}
        BY <2>1, <2>2, <2>a, <2>b, <4>0 DEF AddMoves
      <4>5. \A i, j \in 1 .. Len(vec') : vec'[i] = vec'[j] => i = j
        BY <4>0, <4>2
      <4> QED
        BY <4>0, <4>1, <4>3, <4>4, <4>5 DEF StoreInv
    <3> QED
      BY <3>1, <3>2
  <2>10. RefInv'
    <3>1. Adders' = Adders /\ Referring' = Referring
      BY <2>1, <2>2, <2>b DEF Adders, Referring, AddMoves
    <3> QED
      BY <1>0, <2>b, <3>1 DEF RefInv
  <2> QED
    BY <2>5, <2>6, <2>7, <2>8, <2>9, <2>10 DEF IInv
<1> QED
  BY <1>1, <1>2

LEMMA AddMutexInv == ASSUME IInv, NEW c \in Conts, AddMutex(c) PROVE IInv'
<1> USE EventTaskAssumption
<1>0. Types /\ ClaimInv /\ OwnerInv /\ AddInv /\ StoreInv /\ RefInv
  BY DEF IInv
<1>1. /\ add[c].pc = "mutex" /\ mutex = None /\ mutex' = c
      /\ AddMoves(c, "recheck", add[c].seen, add[c].exp)
  BY <1>0, AddGotoMoves DEF AddMutex, AddPcs, Adding
<1>a. /\ \A d \in Conts : add[d].pc \notin {"recheck", "push"}
      /\ \A s \in Finishers : fin[s].pc # "flush"
  BY <1>0, <1>1 DEF AddInv, ClaimInv, Finishers
<1>2. Types'
  BY <1>0, <1>1, <1>a DEF AddMutex, Types, AddMoves
<1>3. ClaimInv'
  BY <1>0, <1>1, <1>a DEF AddMutex, ClaimInv, AddMoves
<1>4. OwnerInv'
  BY <1>0, <1>1, <1>a DEF AddMutex, OwnerInv, AddMoves
<1>5. AddInv'
  BY <1>0, <1>1, <1>a DEF AddMutex, AddInv, AddMoves, Adding, IsFinished
<1>6. StoreInv'
  BY <1>0, <1>1, <1>a DEF AddMutex, StoreInv, InWord, InVector, AddMoves
<1>7. RefInv'
  <2>1. Adders' = Adders /\ Referring' = Referring
    BY <1>0, <1>1 DEF AddMutex, Adders, Referring, AddMoves
  <2> QED
    BY <1>0, <2>1 DEF AddMutex, RefInv
<1> QED
  BY <1>2, <1>3, <1>4, <1>5, <1>6, <1>7 DEF IInv

LEMMA RecheckInv == ASSUME IInv, NEW c \in Conts, Recheck(c) PROVE IInv'
<1> USE EventTaskAssumption
<1>0. Types /\ ClaimInv /\ OwnerInv /\ AddInv /\ StoreInv /\ RefInv
  BY DEF IInv
<1>1. /\ add[c].pc = "recheck" /\ mutex = c
      /\ \/ data.locked /\ mutex' = None /\ AddMoves(c, "run", add[c].seen, add[c].exp)
         \/ ~ data.locked /\ mutex' = c /\ AddMoves(c, "push", add[c].seen, add[c].exp)
  BY <1>0, AddGotoMoves DEF Recheck, AddInv, AddPcs, Adding
<1>a. /\ \A d \in Conts : d # c => add[d].pc \notin {"recheck", "push"}
      /\ \A s \in Finishers : fin[s].pc # "flush"
  BY <1>0, <1>1, EventTaskAssumption DEF AddInv, ClaimInv, Finishers
<1>2. Types'
  BY <1>0, <1>1, <1>a DEF Recheck, Types, AddMoves
<1>3. ClaimInv'
  BY <1>0, <1>1, <1>a DEF Recheck, ClaimInv, AddMoves
<1>4. OwnerInv'
  BY <1>0, <1>1, <1>a DEF Recheck, OwnerInv, AddMoves
<1>5. AddInv'
  BY <1>0, <1>1, <1>a DEF Recheck, AddInv, AddMoves, ClaimInv, Adding, IsFinished
<1>6. StoreInv'
  BY <1>0, <1>1, <1>a DEF Recheck, StoreInv, InWord, InVector, AddMoves
<1>7. RefInv'
  <2>1. Adders' = Adders /\ Referring' = Referring
    BY <1>0, <1>1 DEF Recheck, Adders, Referring, AddMoves
  <2> QED
    BY <1>0, <2>1 DEF Recheck, RefInv
<1> QED
  BY <1>2, <1>3, <1>4, <1>5, <1>6, <1>7 DEF IInv

LEMMA PushInv == ASSUME IInv, NEW c \in Conts, PushBack(c) PROVE IInv'
<1> USE EventTaskAssumption
<1>0. Types /\ ClaimInv /\ OwnerInv /\ AddInv /\ StoreInv /\ RefInv
  BY DEF IInv
<1>1. /\ add[c].pc = "push" /\ mutex = c /\ mutex' = None /\ cont[c] = "made" /\ data.vector
      /\ ~ data.locked \/ \E s \in Finishers : fin[s].pc = "mutex"
      /\ AddMoves(c, "release", "pending", EmptyWord)
  BY <1>0, AddReturnMoves DEF PushBack, AddInv, Adding
<1>a. /\ \A d \in Conts : d # c => add[d].pc \notin {"recheck", "push"}
      /\ \A s \in Finishers : fin[s].pc # "flush"
  BY <1>0, <1>1, EventTaskAssumption DEF AddInv, ClaimInv, Finishers
<1>b. /\ vec' \in Seq(Conts) /\ Len(vec) \in Nat /\ Len(vec') = Len(vec) + 1 /\ vec'[Len(vec) + 1] = c
      /\ \A i \in 1 .. Len(vec) : vec'[i] = vec[i]
  <2>1. vec \in Seq(Conts) /\ vec' = Append(vec, c)
    BY <1>0 DEF PushBack, Types
  <2> QED
    BY <2>1, AppendProperties, LenProperties
<1>2. Types'
  BY <1>0, <1>1, <1>a, <1>b DEF PushBack, Types, AddMoves
<1>3. ClaimInv'
  BY <1>0, <1>1, <1>a, <1>b DEF PushBack, ClaimInv, AddMoves
<1>4. OwnerInv'
  BY <1>0, <1>1, <1>a, <1>b DEF PushBack, OwnerInv, AddMoves
<1>5. AddInv'
  BY <1>0, <1>1, <1>a, <1>b DEF PushBack, AddInv, AddMoves, Adding, IsFinished
<1>6. StoreInv'
  <2>1. \A d \in Conts : InVector(d)' <=> InVector(d) \/ d = c
    <3> SUFFICES ASSUME NEW d \in Conts PROVE InVector(d)' <=> InVector(d) \/ d = c
      OBVIOUS
    <3>1. \A i \in 1 .. Len(vec') : i \in 1 .. Len(vec) \/ i = Len(vec) + 1
      BY <1>b
    <3>2. \A i \in 1 .. Len(vec) : i \in 1 .. Len(vec')
      BY <1>b
    <3>3. Len(vec) + 1 \in 1 .. Len(vec')
      BY <1>b
    <3> QED
      BY <1>b, <3>1, <3>2, <3>3 DEF InVector
  <2>2. \A i, j \in 1 .. Len(vec') : vec'[i] = vec'[j] => i = j
    <3>1. \A i \in 1 .. Len(vec') : i \in 1 .. Len(vec) \/ i = Len(vec) + 1
      BY <1>b
    <3>2. ~ InVector(c)
      BY <1>0, <1>1 DEF StoreInv
    <3> QED
      BY <1>0, <1>b, <3>1, <3>2 DEF StoreInv, InVector
  <2>3. \A d \in Conts : InWord(d)' <=> InWord(d)
    BY DEF PushBack, InWord
  <2>4. \A d \in Conts : InWord(d)' \/ InVector(d)' <=>
                            cont'[d] = "made" /\ add'[d].pc \in {"release", "done"}
    BY <1>0, <1>1, <2>1, <2>3 DEF PushBack, StoreInv, AddMoves
  <2> QED
    BY <1>0, <1>1, <2>2, <2>4 DEF PushBack, StoreInv
<1>7. RefInv'
  <2>1. Adders' = Adders /\ Referring' = Referring
    BY <1>0, <1>1 DEF PushBack, Adders, Referring, AddMoves
  <2> QED
    BY <1>0, <2>1 DEF PushBack, RefInv
<1> QED
  BY <1>2, <1>3, <1>4, <1>5, <1>6, <1>7 DEF IInv

LEMMA RunDirectlyInv == ASSUME IInv, NEW c \in Conts, RunDirectly(c) PROVE IInv'
<1> USE EventTaskAssumption
<1>0. Types /\ ClaimInv /\ OwnerInv /\ AddInv /\ StoreInv /\ RefInv
  BY DEF IInv
<1>1. add[c].pc = "run" /\ cont[c] = "made" /\ AddMoves(c, "release", "pending", EmptyWord)
  BY <1>0, AddReturnMoves DEF RunDirectly, AddInv, Adding
<1>a. Handled(c)
  BY <1>0, <1>1, HandleKeepsCount DEF RunDirectly
<1>2. Types'
  BY <1>0, <1>1, <1>a DEF RunDirectly, vectorVars, Types, AddMoves, Handled
<1>3. ClaimInv'
  BY <1>0, <1>1, <1>a DEF RunDirectly, vectorVars, ClaimInv, AddMoves
<1>4. OwnerInv'
  BY <1>0, <1>1, <1>a DEF RunDirectly, vectorVars, OwnerInv, AddMoves, Handled
<1>5. AddInv'
  BY <1>0, <1>1, <1>a DEF RunDirectly, vectorVars, AddInv, AddMoves, Adding, IsFinished, Handled
<1>6. StoreInv'
  BY <1>0, <1>1, <1>a DEF RunDirectly, vectorVars, StoreInv, InWord, InVector, AddMoves, Handled
<1>7. RefInv'
  <2>1. Adders' = Adders /\ Adders \in SUBSET Conts
    BY <1>1 DEF Adders, AddMoves
  <2>2. /\ refs \in Nat /\ refs' \in Nat
        /\ Cardinality(Referring) \in Nat /\ Cardinality(Referring') \in Nat
        /\ refs' + Cardinality(Referring) = refs + Cardinality(Referring')
    BY <1>0, <1>a DEF Types, Handled
  <2>3. Cardinality(Adders) \in Nat /\ Cardinality(Adders') = Cardinality(Adders)
    BY <2>1, Counted
  <2>4. fin' = fin
    BY DEF RunDirectly
  <2>5. CASE fin[Owner].pc = "done"
    BY <1>0, <2>2, <2>3, <2>4, <2>5 DEF RefInv
  <2>6. CASE fin[Owner].pc # "done"
    BY <1>0, <2>2, <2>3, <2>4, <2>6 DEF RefInv
  <2> QED
    BY <2>5, <2>6
<1> QED
  BY <1>2, <1>3, <1>4, <1>5, <1>6, <1>7 DEF IInv

LEMMA UnshareInv == ASSUME IInv, NEW c \in Conts, Unshare(c) PROVE IInv'
<1> USE EventTaskAssumption
<1>0. Types /\ ClaimInv /\ OwnerInv /\ AddInv /\ StoreInv /\ RefInv
  BY DEF IInv
<1>1. add[c].pc = "release" /\ AddMoves(c, "done", add[c].seen, add[c].exp)
  BY <1>0, AddGotoMoves DEF Unshare, AddPcs
<1>b. /\ Cardinality(Adders') = Cardinality(Adders) - 1 /\ Referring' = Referring
      /\ Cardinality(Adders) \in Nat /\ Cardinality(Referring) \in Nat /\ refs' \in Nat
  <2>1. Adders' = Adders \ {c} /\ c \in Adders /\ Referring' = Referring
    BY <1>0, <1>1 DEF Types, Unshare, Adders, Referring, AddMoves
  <2>2. Adders \in SUBSET Conts /\ Referring \in SUBSET Conts
    BY DEF Adders, Referring
  <2>3. /\ Cardinality(Adders') = Cardinality(Adders) - 1 /\ Cardinality(Adders) # 0
        /\ Cardinality(Adders) \in Nat /\ Cardinality(Referring) \in Nat
    BY <2>1, <2>2, Counted
  <2>4. refs' \in Nat
    BY <1>0, <2>3 DEF Unshare, RefInv, Types
  <2> QED
    BY <2>1, <2>3, <2>4
<1>2. Types'
  BY <1>0, <1>1, <1>b DEF Unshare, vectorVars, Types, AddMoves
<1>3. ClaimInv'
  BY <1>0, <1>1, <1>b DEF Unshare, vectorVars, ClaimInv, AddMoves
<1>4. OwnerInv'
  BY <1>0, <1>1, <1>b DEF Unshare, vectorVars, OwnerInv, AddMoves
<1>5. AddInv'
  BY <1>0, <1>1, <1>b DEF Unshare, vectorVars, AddInv, AddMoves, Adding
<1>6. StoreInv'
  BY <1>0, <1>1, <1>b DEF Unshare, vectorVars, StoreInv, InWord, InVector, AddMoves
<1>7. RefInv'
  BY <1>0, <1>b DEF Unshare, RefInv, Types
<1> QED
  BY <1>2, <1>3, <1>4, <1>5, <1>6, <1>7 DEF IInv

LEMMA RunContInv == ASSUME IInv, NEW c \in Conts, RunCont(c) PROVE IInv'
<1> USE EventTaskAssumption
<1>0. Types /\ ClaimInv /\ OwnerInv /\ AddInv /\ StoreInv /\ RefInv
  BY DEF IInv
<1>1. cont[c] = "scheduled" /\ cont' = [cont EXCEPT ![c] = "done"]
  BY DEF RunCont
<1>b. /\ Cardinality(Referring') = Cardinality(Referring) - 1 /\ Adders' = Adders
      /\ Cardinality(Adders) \in Nat /\ Cardinality(Referring) \in Nat /\ refs' \in Nat
  <2>1. Referring' = Referring \ {c} /\ c \in Referring /\ Adders' = Adders
    BY <1>0, <1>1 DEF Types, RunCont, Adders, Referring
  <2>2. Adders \in SUBSET Conts /\ Referring \in SUBSET Conts
    BY DEF Adders, Referring
  <2>3. /\ Cardinality(Referring') = Cardinality(Referring) - 1 /\ Cardinality(Referring) # 0
        /\ Cardinality(Adders) \in Nat /\ Cardinality(Referring) \in Nat
    BY <2>1, <2>2, Counted
  <2>4. refs' \in Nat
    BY <1>0, <2>3 DEF RunCont, RefInv, Types
  <2> QED
    BY <2>1, <2>3, <2>4
<1>2. Types'
  BY <1>0, <1>1, <1>b DEF RunCont, vectorVars, Types
<1>3. ClaimInv'
  BY <1>0, <1>1, <1>b DEF RunCont, vectorVars, ClaimInv
<1>4. OwnerInv'
  BY <1>0, <1>1, <1>b DEF RunCont, vectorVars, OwnerInv
<1>5. AddInv'
  BY <1>0, <1>1, <1>b DEF RunCont, vectorVars, AddInv, Adding
<1>6. StoreInv'
  BY <1>0, <1>1, <1>b DEF RunCont, vectorVars, StoreInv, InWord, InVector
<1>7. RefInv'
  BY <1>0, <1>b DEF RunCont, RefInv, Types
<1> QED
  BY <1>2, <1>3, <1>4, <1>5, <1>6, <1>7 DEF IInv

-----------------------------------------------------------------------------
(* The invariant.                                                           *)

\* Every step keeps it, those included that change nothing.
LEMMA NextInv == ASSUME IInv, [EventNext]_eventVars PROVE IInv'
<1>1. CASE UNCHANGED eventVars
  BY <1>1 DEF eventVars, vectorVars, IInv, Types, ClaimInv, OwnerInv, AddInv, StoreInv, RefInv,
              InWord, InVector, Adders, Referring
<1>2. CASE Destroy \/ Release
  BY <1>2, DestroyInv, ReleaseInv
<1>3. ASSUME NEW s \in Finishers, FinishStep(s) PROVE IInv'
  BY <1>3, LeaveInv, ClaimKeeps, StoreResultInv, PublishInv, LockVectorInv, FlushInlineInv,
     FlushMutexInv, FlushVectorInv DEF FinishStep
<1>4. ASSUME NEW c \in Conts, AddStep(c) PROVE IInv'
  BY <1>4, MakeInv, ReadStateInv, ReadWordInv, SwapInv, AddMutexInv, RecheckInv, PushInv,
     RunDirectlyInv, UnshareInv DEF AddStep
<1>5. ASSUME NEW c \in Conts, RunCont(c) PROVE IInv'
  BY <1>5, RunContInv
<1> QED
  BY <1>1, <1>2, <1>3, <1>4, <1>5 DEF EventNext, Terminated

\* The word, the vector and the references agree with where the threads are.
THEOREM Consistent == EventSpec => []IInv
<1>1. EventInit => IInv
  BY InitInv
<1>2. IInv /\ [EventNext]_eventVars => IInv'
  BY NextInv
<1> QED
  BY <1>1, <1>2, PTL DEF EventSpec

-----------------------------------------------------------------------------
(* What follows from it.                                                    *)

\* At a count of zero, nobody uses the task: no thread is in set or then, and
\* no continuation holds a reference or is in the vector.
LEMMA IInvFreedUnused == ASSUME IInv PROVE FreedUnused
<1> SUFFICES ASSUME refs = 0 PROVE Ended
  BY DEF FreedUnused
<1>0. Types /\ OwnerInv /\ AddInv /\ RefInv
  BY DEF IInv
<1>1. Adders \in SUBSET Conts /\ Referring \in SUBSET Conts
  BY DEF Adders, Referring
<1>2. Cardinality(Adders) \in Nat /\ Cardinality(Referring) \in Nat
  BY <1>1, Counted
<1>3. fin[Owner].pc = "done" /\ Cardinality(Adders) = 0 /\ Cardinality(Referring) = 0
  <2>1. CASE fin[Owner].pc = "done"
    BY <1>0, <1>2, <2>1 DEF RefInv
  <2>2. CASE fin[Owner].pc # "done"
    BY <1>0, <1>2, <2>2 DEF RefInv
  <2> QED
    BY <2>1, <2>2
<1>4. Adders = {} /\ Referring = {}
  BY <1>1, <1>3, Counted
<1>5. \A s \in Finishers : fin[s].pc = "done"
  BY <1>0, <1>3 DEF OwnerInv, Finishers
<1>6. \A c \in Conts : add[c].pc = "done" /\ cont[c] \in {"canceled", "done"}
  BY <1>0, <1>4 DEF Adders, Referring, AddInv, Types
<1> QED
  BY <1>5, <1>6 DEF Ended, Returned

\* The last reference goes when nobody uses the task any more.
THEOREM Freed == EventSpec => []FreedUnused
<1>1. IInv => FreedUnused
  BY IInvFreedUnused
<1> QED
  BY <1>1, Consistent, PTL

\* A continuation that is still stored when all threads have returned would be
\* in a vector that nobody flushes: the event was finished, so it is locked, and
\* nobody holds it open; and it is finished, because the count was above one.
LEMMA IInvNoneLost == ASSUME IInv PROVE NoneLost
<1> SUFFICES ASSUME Returned, NEW c \in Conts, cont[c] \notin {"scheduled", "canceled", "done"}
             PROVE  FALSE
  BY DEF NoneLost
<1>0. Types /\ ClaimInv /\ OwnerInv /\ AddInv /\ StoreInv
  BY DEF IInv
<1>1. cont[c] = "made" /\ add[c].pc = "done"
  BY <1>0 DEF Returned, AddInv, Types
<1>2. InWord(c) \/ InVector(c)
  BY <1>0, <1>1 DEF StoreInv
<1>3. IsFinished(state) /\ \A s \in Finishers : fin[s].pc = "done"
  BY <1>0, <1>1 DEF Returned, OwnerInv, Finishers
<1>4. data.locked
  BY <1>0, <1>3 DEF ClaimInv
<1>5. vec = <<>>
  BY <1>0, <1>3, <1>4 DEF StoreInv
<1> QED
  BY <1>2, <1>3, <1>4, <1>5 DEF InWord, InVector

\* When all threads have returned, every continuation has been scheduled or
\* canceled, whether or not the event was ever set.
THEOREM NoContinuationLost == EventSpec => []NoneLost
<1>1. IInv => NoneLost
  BY IInvNoneLost
<1> QED
  BY <1>1, Consistent, PTL

-----------------------------------------------------------------------------
(* The promise: every step of EventTask is one of TaskPromise, may be of the *)
(* weaker one, or leaves it as it is.                                        *)

\* What TaskPromise sees of the task.
Outcome == IF state = "completed" THEN "value"
           ELSE IF state = "canceled" THEN "exception" ELSE "none"
Stage(a) == IF a.pc \in {"make", "state"} THEN "not"
            ELSE IF a.pc \notin {"release", "done"} /\ ~ IsFinished(a.seen) THEN "early"
            ELSE "over"
Stages == [c \in Conts |-> Stage(add[c])]
Did(k) == IF k \in {"scheduled", "done"} THEN "run" ELSE IF k = "canceled" THEN "canceled" ELSE "no"
Handling == [c \in Conts |-> Did(cont[c])]

PromiseStep == Promise!RacyNext \/ UNCHANGED <<Outcome, Stages, Handling>>

LEMMA InitPromise == EventInit => Promise!Init
BY DEF EventInit, AddAt, Promise!Init

\* Steps that finish nothing, handle nothing, and leave a then() at its stage.
LEMMA Unseen ==
    ASSUME Outcome' = Outcome,
           \A c \in Conts : Did(cont'[c]) = Did(cont[c]),
           \A c \in Conts : Stage(add'[c]) = Stage(add[c])
    PROVE  PromiseStep
BY DEF PromiseStep, Handling, Stages

\* A continuation is handled by the outcome, or is overtaken by it.
LEMMA HandlePromise ==
    ASSUME Types, NEW c \in Conts, NEW cancel \in BOOLEAN, Handle(c, cancel),
           cont[c] = "made", state' = state, IsFinished(state),
           Stage(add[c]) # "not", Stages' = [Stages EXCEPT ![c] = "over"],
           (cancel <=> state = "canceled") \/ (~ cancel /\ Stage(add[c]) = "early")
    PROVE  PromiseStep
<1>1. /\ Outcome' = Outcome
      /\ Outcome = IF state = "canceled" THEN "exception" ELSE "value"
  BY DEF Outcome, IsFinished
<1>2. Stages[c] = Stage(add[c]) /\ Handling[c] = "no"
  BY DEF Stages, Handling, Did
<1>3. CASE cancel /\ c \notin Always /\ cont' = [cont EXCEPT ![c] = "canceled"]
  <2>1. Handling' = [Handling EXCEPT ![c] = "canceled"]
    BY <1>3 DEF Handling, Did, Types
  <2>2. Outcome = "exception"
    BY <1>1, <1>3
  <2>3. Promise!Cancel(c)
    BY <1>1, <1>2, <1>3, <2>1, <2>2
       DEF Promise!Cancel, Promise!HandledAs, Outcome, Stages, Stage, Handling, Did
  <2> QED
    BY <2>3 DEF PromiseStep, Promise!RacyNext, Promise!Next
<1>4. CASE ~ (cancel /\ c \notin Always) /\ cont' = [cont EXCEPT ![c] = "scheduled"]
  <2>1. Handling' = [Handling EXCEPT ![c] = "run"]
    BY <1>4 DEF Handling, Did, Types
  <2>2. CASE Outcome = "value" \/ (Outcome = "exception" /\ c \in Always)
    <3>1. Promise!Run(c)
      BY <1>1, <1>2, <2>1, <2>2
         DEF Promise!Run, Promise!HandledAs, Outcome, Stages, Stage, Handling, Did
    <3> QED
      BY <3>1 DEF PromiseStep, Promise!RacyNext, Promise!Next
  <2>3. CASE Outcome = "exception" /\ c \notin Always
    <3>1. state = "canceled" /\ ~ cancel
      BY <1>1, <1>4, <2>3
    <3>2. Stage(add[c]) = "early"
      BY <3>1
    <3>3. Promise!Overtaken(c)
      BY <1>1, <1>2, <2>1, <2>3, <3>2
         DEF Promise!Overtaken, Promise!HandledAs, Outcome, Stages, Stage, Handling, Did
    <3> QED
      BY <3>3 DEF PromiseStep, Promise!RacyNext
  <2> QED
    BY <1>1, <2>2, <2>3
<1> QED
  BY <1>3, <1>4 DEF Handle

\* What is in the list was added, and is handled by the outcome.
LEMMA FlushPromise ==
    ASSUME Types, StoreInv, NEW s \in Finishers, NEW c \in Conts,
           InWord(c) \/ InVector(c), Handle(c, fin[s].op = "exception"),
           state' = state, add' = add,
           state = IF fin[s].op = "value" THEN "completed" ELSE "canceled"
    PROVE  PromiseStep
<1>1. cont[c] = "made" /\ add[c].pc \in {"release", "done"}
  BY DEF StoreInv
<1>2. Stage(add[c]) = "over"
  BY <1>1 DEF Stage
<1>3. Stages' = [Stages EXCEPT ![c] = "over"]
  BY <1>2 DEF Stages
<1>4. fin[s].op \in {"value", "exception"}
  BY DEF Types
<1>5. IsFinished(state) /\ ((fin[s].op = "exception") <=> state = "canceled")
  BY <1>4 DEF IsFinished
<1> QED
  BY <1>1, <1>2, <1>3, <1>5, HandlePromise

\* The steps of a finisher: Publish is the outcome, the flushes handle.
LEMMA FinishPromise == ASSUME IInv, NEW s \in Finishers, FinishStep(s) PROVE PromiseStep
<1>0. Types /\ ClaimInv /\ StoreInv
  BY DEF IInv
<1>1. CASE Leave(s) \/ StoreResult(s) \/ LockVector(s) \/ FlushMutex(s)
  BY <1>1, Unseen DEF Leave, StoreResult, LockVector, FlushMutex, Outcome
<1>2. CASE Claim(s)
  BY <1>2, Unseen DEF Claim, Outcome
<1>3. CASE Publish(s)
  <2>1. /\ state = "locked" /\ state' \in {"completed", "canceled"}
        /\ UNCHANGED <<cont, add>>
    BY <1>0, <1>3 DEF Publish, ClaimInv
  <2>2. Promise!Finish
    BY <2>1 DEF Promise!Finish
  <2> QED
    BY <2>2 DEF PromiseStep, Promise!RacyNext, Promise!Next
<1>4. CASE FlushInline(s)
  <2>1. CASE data.elem = None
    BY <1>4, <2>1, Unseen DEF FlushInline, Outcome
  <2>2. CASE data.elem # None
    <3>1. data.elem \in Conts
      BY <1>0, <2>2 DEF Types, Words
    <3>2. InWord(data.elem)
      BY <1>4 DEF FlushInline, InWord
    <3>3. state = IF fin[s].op = "value" THEN "completed" ELSE "canceled"
      BY <1>0, <1>4 DEF FlushInline, ClaimInv
    <3> QED
      BY <1>0, <1>4, <2>2, <3>1, <3>2, <3>3, FlushPromise DEF FlushInline
  <2> QED
    BY <2>1, <2>2
<1>5. CASE FlushVector(s)
  <2>1. CASE vec = <<>>
    BY <1>5, <2>1, Unseen DEF FlushVector, Outcome
  <2>2. CASE vec # <<>>
    <3>1. Head(vec) \in Conts /\ Head(vec) = vec[1] /\ 1 \in 1 .. Len(vec)
      BY <1>0, <2>2, HeadTailProperties, LenProperties DEF Types
    <3>2. InVector(Head(vec))
      BY <3>1 DEF InVector
    <3>3. state = IF fin[s].op = "value" THEN "completed" ELSE "canceled"
      BY <1>0, <1>5 DEF FlushVector, ClaimInv
    <3> QED
      BY <1>0, <1>5, <2>2, <3>1, <3>2, <3>3, FlushPromise DEF FlushVector
  <2> QED
    BY <2>1, <2>2
<1> QED
  BY <1>1, <1>2, <1>3, <1>4, <1>5 DEF FinishStep

\* A thread that adds goes from one stage to another, and handles nothing.
LEMMA StagePromise ==
    ASSUME Types, NEW c \in Conts, NEW a, add'[c] = a,
           \A d \in Conts : d # c => add'[d] = add[d],
           UNCHANGED <<state, cont>>,
           \/ Stage(a) = Stage(add[c])
           \/ Stage(add[c]) = "early" /\ Stage(a) = "over"
           \/ /\ Stage(add[c]) = "not"
              /\ Stage(a) = IF Outcome = "none" THEN "early" ELSE "over"
    PROVE  PromiseStep
<1>1. Outcome' = Outcome /\ Handling' = Handling
  BY DEF Outcome, Handling
<1>2. Stages' = [Stages EXCEPT ![c] = Stage(a)] /\ Stages[c] = Stage(add[c])
  BY DEF Stages
<1>3. CASE Stage(a) = Stage(add[c])
  BY <1>1, <1>3, Unseen DEF Handling
<1>4. CASE Stage(add[c]) = "early" /\ Stage(a) = "over"
  <2>1. Promise!Accept(c)
    BY <1>1, <1>2, <1>4 DEF Promise!Accept, Outcome, Stages, Stage, Handling, Did
  <2> QED
    BY <2>1 DEF PromiseStep, Promise!RacyNext, Promise!Next
<1>5. CASE /\ Stage(add[c]) = "not"
           /\ Stage(a) = IF Outcome = "none" THEN "early" ELSE "over"
  <2>1. Promise!Begin(c)
    BY <1>1, <1>2, <1>5 DEF Promise!Begin, Outcome, Stages, Stage, Handling, Did
  <2> QED
    BY <2>1 DEF PromiseStep, Promise!RacyNext, Promise!Next
<1> QED
  BY <1>3, <1>4, <1>5

\* The steps of a thread that adds: RunDirectly handles.
LEMMA AddPromise == ASSUME IInv, NEW c \in Conts, AddStep(c) PROVE PromiseStep
<1>0. Types /\ AddInv
  BY DEF IInv
<1> DEFINE Word == {"word", "swap", "mutex", "recheck", "push"}
<1>1. ASSUME add[c].pc \in Word \cup {"run"} PROVE Stage(add[c]) # "not"
  BY <1>1 DEF Stage
<1>2. CASE Make(c)
  <2>1. /\ cont[c] = "new" /\ cont' = [cont EXCEPT ![c] = "made"] /\ state' = state
        /\ add[c].pc = "make" /\ AddMoves(c, "state", add[c].seen, add[c].exp)
    BY <1>0, <1>2, AddGotoMoves DEF Make, AddInv, AddPcs, Adding
  <2>2. \A d \in Conts : Did(cont'[d]) = Did(cont[d])
    BY <1>0, <2>1 DEF Did, Types
  <2>3. \A d \in Conts : Stage(add'[d]) = Stage(add[d])
    BY <2>1 DEF Stage, AddMoves
  <2> QED
    BY <2>1, <2>2, <2>3, Unseen DEF Outcome
<1>3. CASE ReadState(c)
  <2>1. /\ add[c].pc = "state" /\ UNCHANGED <<state, cont>>
        /\ add'[c].seen = state /\ add'[c].pc = IF IsFinished(state) THEN "run" ELSE "word"
        /\ \A d \in Conts : d # c => add'[d] = add[d]
    BY <1>0, <1>3 DEF ReadState, Types
  <2>2. Stage(add[c]) = "not"
    BY <2>1 DEF Stage
  <2>3. Stage(add'[c]) = IF Outcome = "none" THEN "early" ELSE "over"
    <3>1. IsFinished(state) <=> Outcome # "none"
      BY DEF IsFinished, Outcome
    <3> QED
      BY <2>1, <3>1 DEF Stage
  <2> QED
    BY <1>0, <2>1, <2>2, <2>3, StagePromise
<1>4. ASSUME add[c].pc \in Word, UNCHANGED <<state, cont>>,
             NEW pc \in AddPcs, NEW exp, AddMoves(c, pc, add[c].seen, exp), pc \in Word \cup {"run"}
      PROVE  PromiseStep
  <2>1. Stage(add'[c]) = Stage(add[c])
    BY <1>4 DEF Stage, AddMoves
  <2> QED
    BY <1>0, <1>4, <2>1, StagePromise DEF AddMoves
<1>5. ASSUME add[c].pc \in Word \cup {"release", "done"}, UNCHANGED <<state, cont>>,
             NEW pc \in {"release", "done"}, NEW seen, NEW exp, AddMoves(c, pc, seen, exp)
      PROVE  PromiseStep
  <2>1. Stage(add[c]) \in {"early", "over"} /\ Stage(add'[c]) = "over"
    BY <1>5 DEF Stage, AddMoves
  <2> QED
    BY <1>0, <1>5, <2>1, StagePromise DEF AddMoves
<1>6. ASSUME add[c].pc \in Word, UNCHANGED <<state, cont>>, Branch(c)
      PROVE  PromiseStep
  <2>1. PICK pc \in {"run", "mutex", "swap"} : AddMoves(c, pc, add[c].seen, data)
    BY <1>0, <1>6, BranchMoves
  <2> QED
    BY <1>4, <1>6, <2>1 DEF AddPcs, Adding
<1>7. CASE ReadWord(c)
  BY <1>6, <1>7 DEF ReadWord
<1>8. CASE Swap(c)
  <2>1. add[c].pc = "swap" /\ UNCHANGED <<state, cont>> /\ (Branch(c) \/ AddReturn(c))
    BY <1>8 DEF Swap
  <2>2. CASE Branch(c)
    BY <1>6, <2>1, <2>2
  <2>3. CASE AddReturn(c)
    BY <1>0, <1>5, <2>1, <2>3, AddReturnMoves
  <2> QED
    BY <2>1, <2>2, <2>3
<1>9. CASE AddMutex(c)
  <2>1. AddMoves(c, "recheck", add[c].seen, add[c].exp)
    BY <1>0, <1>9, AddGotoMoves DEF AddMutex, AddPcs, Adding
  <2> QED
    BY <1>4, <1>9, <2>1 DEF AddMutex, AddPcs, Adding
<1>10. CASE Recheck(c)
  <2>1. PICK pc \in {"run", "push"} : AddGoto(c, pc)
    BY <1>10 DEF Recheck
  <2>2. AddMoves(c, pc, add[c].seen, add[c].exp)
    BY <1>0, <2>1, AddGotoMoves DEF AddPcs, Adding
  <2> QED
    BY <1>4, <1>10, <2>2 DEF Recheck, AddPcs, Adding
<1>11. CASE PushBack(c)
  BY <1>0, <1>5, <1>11, AddReturnMoves DEF PushBack
<1>12. CASE Unshare(c)
  <2>1. AddMoves(c, "done", add[c].seen, add[c].exp)
    BY <1>0, <1>12, AddGotoMoves DEF Unshare, AddPcs
  <2> QED
    BY <1>5, <1>12, <2>1 DEF Unshare
<1>13. CASE RunDirectly(c)
  <2>1. /\ add[c].pc = "run" /\ cont[c] = "made" /\ IsFinished(state) /\ state' = state
        /\ IsFinished(add[c].seen) => state = add[c].seen
        /\ Handle(c, add[c].seen = "canceled")
        /\ AddMoves(c, "release", "pending", EmptyWord)
    BY <1>0, <1>13, AddReturnMoves DEF RunDirectly, AddInv, Adding
  <2>2. Stages' = [Stages EXCEPT ![c] = "over"]
    BY <2>1 DEF Stages, Stage, AddMoves
  <2>3. \/ (add[c].seen = "canceled") <=> state = "canceled"
        \/ add[c].seen # "canceled" /\ Stage(add[c]) = "early"
    BY <2>1 DEF Stage, IsFinished
  <2>4. Stage(add[c]) # "not"
    BY <1>1, <2>1
  <2> QED
    BY <1>0, <2>1, <2>2, <2>3, <2>4, HandlePromise
<1> QED
  BY <1>2, <1>3, <1>7, <1>8, <1>9, <1>10, <1>11, <1>12, <1>13 DEF AddStep

LEMMA NextPromise == ASSUME IInv, [EventNext]_eventVars PROVE PromiseStep
<1>0. Types
  BY DEF IInv
<1>1. CASE UNCHANGED eventVars
  BY <1>1, Unseen DEF eventVars, Outcome
<1>2. CASE Destroy \/ Release
  BY <1>2, Unseen DEF Destroy, Release, Outcome
<1>3. ASSUME NEW s \in Finishers, FinishStep(s) PROVE PromiseStep
  BY <1>3, FinishPromise
<1>4. ASSUME NEW c \in Conts, AddStep(c) PROVE PromiseStep
  BY <1>4, AddPromise
<1>5. ASSUME NEW c \in Conts, RunCont(c) PROVE PromiseStep
  <2>1. /\ cont[c] = "scheduled" /\ cont' = [cont EXCEPT ![c] = "done"]
        /\ UNCHANGED <<state, add>>
    BY <1>5 DEF RunCont
  <2>2. Outcome' = Outcome /\ \A d \in Conts : Did(cont'[d]) = Did(cont[d])
    BY <1>0, <2>1 DEF Outcome, Did, Types
  <2> QED
    BY <2>1, <2>2, Unseen
<1> QED
  BY <1>1, <1>2, <1>3, <1>4, <1>5 DEF EventNext, Terminated

\* Through every race of then with set, with any number of threads: the task gets
\* one outcome; each continuation is handled at most once, after it, and by it,
\* unless the outcome has overtaken its then().
THEOREM Promised == EventSpec => KeepsRacyPromise
<1>1. EventInit => Promise!Init
  BY InitPromise
<1>2. IInv /\ [EventNext]_eventVars => [Promise!RacyNext]_Promise!promiseVars
  <2>1. ASSUME UNCHANGED <<Outcome, Stages, Handling>>
        PROVE  UNCHANGED Promise!promiseVars
    BY <2>1 DEF Promise!promiseVars, Outcome, Stages, Stage, Handling, Did
  <2> QED
    BY <2>1, NextPromise DEF PromiseStep
<1> QED
  BY <1>1, <1>2, Consistent, PTL DEF EventSpec, KeepsRacyPromise, Promise!RacySpec

=============================================================================
