--------------------------- MODULE ProgramProofs ---------------------------
(***************************************************************************)
(* Theorems about Program, for any workers, calls, partitioners and        *)
(* scenarios: the parts of a range are disjoint and exhaustive, their      *)
(* joins miss none and put the results in the order of the items, a task's *)
(* frame outlives its subtasks, only steals split a range further than     *)
(* there are threads, and when_all and when_any keep what When promises    *)
(* while the calls are run.                                                *)
(***************************************************************************)
EXTENDS Program, FiniteSetTheorems, SequenceTheorems, FunctionTheorems,
        WellFoundedInduction, TLAPS

-----------------------------------------------------------------------------
(* When by itself, for any number of inputs that finish at any time: the    *)
(* shared state is deleted with its last reference, and the event is set    *)
(* with a result as promised.                                               *)

Failed == reg.does \in {"catch", "thrown"}

\* What the registrar has done, and who has finished.
RegInv ==
    /\ reg.does = "done" => reg.at = Count
    /\ reg.does = "fill" => combine = "any"
    /\ \A i \in Inputs :
          /\ cont[i] = "none" <=>
                \/ i > reg.at
                \/ i = reg.at /\ reg.does \in {"fill", "then"}
          /\ cont[i] \in {"run", "set", "drop"} => i \in finished
          /\ cont[i] = "set" => combine = "any"
    /\ deletions > 1 => reg.does = "thrown"

\* when_all: what has been kept.
AllInv ==
    combine = "all" =>
       /\ \A i \in Inputs :
             /\ cont[i] = "drop" => i \in result
             /\ cont[i] = "over" => Failed \/ (i \in finished /\ i \in result)
       /\ event.kind = "value" => Failed \/ (event.tasks = Inputs /\ finished = Inputs)

\* when_any: who has set the event.
AnyInv == combine = "any" /\ event.kind = "value" => event.index \in finished

IInv == WhenTypeOK /\ DeletedWithLastRef /\ RegInv /\ AllInv /\ AnyInv

\* There are at most as many owners as inputs; one fewer when one leaves.
LEMMA OwnersCounted ==
    ASSUME NEW S \in SUBSET Inputs
    PROVE  /\ IsFiniteSet(S)
           /\ Cardinality(S) \in 0 .. Count
           /\ Cardinality(S) = 0 <=> S = {}
           /\ \A x \in S : Cardinality(S \ {x}) = Cardinality(S) - 1
<1>1. IsFiniteSet(Inputs) /\ Cardinality(Inputs) = Count
  BY FS_Interval, WhenAssumption DEF Inputs
<1>2. IsFiniteSet(S) /\ Cardinality(S) <= Count
  BY <1>1, FS_Subset
<1>3. Cardinality(S) \in Nat
  BY <1>2, FS_CardinalityType
<1>4. Cardinality(S) = 0 <=> S = {}
  BY <1>2, FS_EmptySet
<1>5. \A x \in S : Cardinality(S \ {x}) = Cardinality(S) - 1
  BY <1>2, FS_RemoveElement
<1> QED
  BY <1>2, <1>3, <1>4, <1>5, WhenAssumption

LEMMA InitInv == WhenInit => IInv
<1> SUFFICES ASSUME WhenInit PROVE IInv
  OBVIOUS
<1> USE WhenAssumption
<1>1. WhenTypeOK
  <2>1. 1 \in Inputs
    BY DEF Inputs
  <2>2. reg \in [does : {"fill", "then", "catch", "thrown", "done"}, at : Inputs]
    BY <2>1 DEF WhenInit, Begins
  <2>3. deletions \in 0 .. 2
    BY DEF WhenInit
  <2> QED
    BY <2>2, <2>3 DEF WhenInit, WhenTypeOK
<1>2. Owners = Inputs
  BY DEF WhenInit, Owners, Begins
<1>3. Cardinality(Inputs) = Count
  BY FS_Interval DEF Inputs
<1>4. DeletedWithLastRef
  BY <1>2, <1>3 DEF WhenInit, DeletedWithLastRef
<1>5. RegInv /\ AllInv /\ AnyInv
  BY DEF WhenInit, RegInv, AllInv, AnyInv, Begins, Inputs
<1> QED
  BY <1>1, <1>4, <1>5 DEF IInv

-----------------------------------------------------------------------------
\* Steps that leave the references alone.
LEMMA FillInv == IInv /\ Fill => IInv'
<1> SUFFICES ASSUME IInv, Fill PROVE IInv'
  OBVIOUS
<1> USE WhenAssumption
<1>0. WhenTypeOK /\ DeletedWithLastRef /\ RegInv /\ AllInv /\ AnyInv
  BY DEF IInv
<1>a. /\ reg.does = "fill" /\ reg'.does = "then" /\ reg'.at = reg.at /\ reg.at \in Inputs
      /\ reg' \in [does : {"fill", "then", "catch", "thrown", "done"}, at : Inputs]
      /\ result' = result \cup {reg.at}
  BY <1>0 DEF Fill, Registering, WhenTypeOK
<1>1. WhenTypeOK'
  BY <1>0, <1>a DEF Fill, WhenTypeOK
<1>2. DeletedWithLastRef'
  <2>1. Owners' = Owners
    BY <1>a DEF Fill, Owners
  <2> QED
    BY <2>1, <1>0, <1>a DEF Fill, DeletedWithLastRef
<1>3. RegInv'
  BY <1>0, <1>a DEF Fill, RegInv
<1>4. AllInv'
  BY <1>0, <1>a DEF Fill, AllInv, Failed, RegInv
<1>5. AnyInv'
  BY <1>0, <1>a DEF Fill, AnyInv
<1> QED
  BY <1>1, <1>2, <1>3, <1>4, <1>5 DEF IInv

\* The new continuation takes the reference that was reserved for the input.
LEMMA ThenInv == IInv /\ Then => IInv'
<1> SUFFICES ASSUME IInv, Then PROVE IInv'
  OBVIOUS
<1> USE WhenAssumption
<1>0. WhenTypeOK /\ DeletedWithLastRef /\ RegInv /\ AllInv /\ AnyInv
  BY DEF IInv
<1>a. /\ reg.does = "then" /\ reg.at \in Inputs
      /\ reg'.does = IF reg.at = Count THEN "done" ELSE Begins
      /\ reg'.at = IF reg.at = Count THEN reg.at ELSE reg.at + 1
      /\ reg' \in [does : {"fill", "then", "catch", "thrown", "done"}, at : Inputs]
  BY <1>0 DEF Then, Registering, WhenTypeOK, Advance, Begins, Inputs
<1>b. /\ cont[reg.at] = "none"
      /\ \/ reg.at \in finished /\ cont' = [cont EXCEPT ![reg.at] = "run"]
         \/ reg.at \notin finished /\ cont' = [cont EXCEPT ![reg.at] = "added"]
  BY <1>0, <1>a DEF Then, RegInv
<1>c. cont' \in [Inputs -> {"none", "added", "run", "set", "drop", "over"}]
  BY <1>0, <1>a, <1>b DEF WhenTypeOK
<1>1. WhenTypeOK'
  <2>1. runner' \in [Inputs -> {"nobody", "registrar", "finisher"}]
    BY <1>0, <1>a DEF Then, WhenTypeOK
  <2> QED
    BY <1>0, <1>a, <1>c, <2>1 DEF Then, WhenTypeOK
<1>2. DeletedWithLastRef'
  <2>1. Owners' = Owners
    BY <1>0, <1>a, <1>b DEF Owners, WhenTypeOK, Begins
  <2> QED
    BY <2>1, <1>0, <1>a DEF Then, DeletedWithLastRef
<1>3. RegInv'
  BY <1>0, <1>a, <1>b DEF Then, RegInv, WhenTypeOK, Begins, Inputs
<1>4. AllInv'
  BY <1>0, <1>a, <1>b DEF Then, AllInv, Failed, WhenTypeOK
<1>5. AnyInv'
  BY <1>0 DEF Then, AnyInv
<1> QED
  BY <1>1, <1>2, <1>3, <1>4, <1>5 DEF IInv

LEMMA FinishInputInv == ASSUME NEW k \in Inputs PROVE IInv /\ FinishInput(k) => IInv'
<1> SUFFICES ASSUME IInv, FinishInput(k) PROVE IInv'
  OBVIOUS
<1> USE WhenAssumption
<1>0. WhenTypeOK /\ DeletedWithLastRef /\ RegInv /\ AllInv /\ AnyInv
  BY DEF IInv
<1>a. /\ finished' = finished \cup {k}
      /\ \/ cont[k] = "added" /\ cont' = [cont EXCEPT ![k] = "run"]
         \/ cont[k] # "added" /\ cont' = cont
      /\ cont' \in [Inputs -> {"none", "added", "run", "set", "drop", "over"}]
  BY <1>0 DEF FinishInput, WhenTypeOK
<1>1. WhenTypeOK'
  <2>1. runner' \in [Inputs -> {"nobody", "registrar", "finisher"}]
    BY <1>0 DEF FinishInput, WhenTypeOK
  <2> QED
    BY <1>0, <1>a, <2>1 DEF FinishInput, WhenTypeOK
<1>2. DeletedWithLastRef'
  <2>1. Owners' = Owners
    BY <1>0, <1>a DEF FinishInput, Owners, WhenTypeOK
  <2> QED
    BY <2>1, <1>0 DEF FinishInput, DeletedWithLastRef
<1>3. RegInv'
  BY <1>0, <1>a DEF FinishInput, RegInv, WhenTypeOK
<1>4. AllInv'
  BY <1>0, <1>a DEF FinishInput, AllInv, Failed, WhenTypeOK
<1>5. AnyInv'
  BY <1>0, <1>a DEF FinishInput, AnyInv, WhenTypeOK
<1> QED
  BY <1>1, <1>2, <1>3, <1>4, <1>5 DEF IInv

LEMMA KeepInv == ASSUME NEW k \in Inputs PROVE IInv /\ Keep(k) => IInv'
<1> SUFFICES ASSUME IInv, Keep(k) PROVE IInv'
  OBVIOUS
<1> USE WhenAssumption
<1>0. WhenTypeOK /\ DeletedWithLastRef /\ RegInv /\ AllInv /\ AnyInv
  BY DEF IInv
<1>a. /\ cont[k] = "run" /\ cont' = [cont EXCEPT ![k] = "drop"]
      /\ cont' \in [Inputs -> {"none", "added", "run", "set", "drop", "over"}]
      /\ result' = result \cup {k} /\ combine = "all"
  BY <1>0 DEF Keep, WhenTypeOK
<1>1. WhenTypeOK'
  BY <1>0, <1>a DEF Keep, WhenTypeOK
<1>2. DeletedWithLastRef'
  <2>1. Owners' = Owners
    BY <1>0, <1>a DEF Keep, Owners, WhenTypeOK
  <2> QED
    BY <2>1, <1>0 DEF Keep, DeletedWithLastRef
<1>3. RegInv'
  BY <1>0, <1>a DEF Keep, RegInv, WhenTypeOK
<1>4. AllInv'
  BY <1>0, <1>a DEF Keep, AllInv, Failed, WhenTypeOK
<1>5. AnyInv'
  BY <1>0, <1>a DEF Keep, AnyInv
<1> QED
  BY <1>1, <1>2, <1>3, <1>4, <1>5 DEF IInv

LEMMA MoveOutInv == ASSUME NEW k \in Inputs PROVE IInv /\ MoveOut(k) => IInv'
<1> SUFFICES ASSUME IInv, MoveOut(k) PROVE IInv'
  OBVIOUS
<1> USE WhenAssumption
<1>0. WhenTypeOK /\ DeletedWithLastRef /\ RegInv /\ AllInv /\ AnyInv
  BY DEF IInv
<1>a. /\ cont[k] = "run" /\ cont' = [cont EXCEPT ![k] = "set"]
      /\ cont' \in [Inputs -> {"none", "added", "run", "set", "drop", "over"}]
      /\ temp' = [temp EXCEPT ![k] = result] /\ combine = "any"
  BY <1>0 DEF MoveOut, WhenTypeOK
<1>1. WhenTypeOK'
  BY <1>0, <1>a DEF MoveOut, WhenTypeOK
<1>2. DeletedWithLastRef'
  <2>1. Owners' = Owners
    BY <1>0, <1>a DEF MoveOut, Owners, WhenTypeOK
  <2> QED
    BY <2>1, <1>0 DEF MoveOut, DeletedWithLastRef
<1>3. RegInv'
  BY <1>0, <1>a DEF MoveOut, RegInv, WhenTypeOK
<1>4. AllInv'
  BY <1>0, <1>a DEF MoveOut, AllInv
<1>5. AnyInv'
  BY <1>0 DEF MoveOut, AnyInv
<1> QED
  BY <1>1, <1>2, <1>3, <1>4, <1>5 DEF IInv

LEMMA SetInv == ASSUME NEW k \in Inputs PROVE IInv /\ Set(k) => IInv'
<1> SUFFICES ASSUME IInv, Set(k) PROVE IInv'
  OBVIOUS
<1> USE WhenAssumption
<1>0. WhenTypeOK /\ DeletedWithLastRef /\ RegInv /\ AllInv /\ AnyInv
  BY DEF IInv
<1>a. /\ cont[k] = "set" /\ cont' = [cont EXCEPT ![k] = "drop"]
      /\ cont' \in [Inputs -> {"none", "added", "run", "set", "drop", "over"}]
      /\ temp' = [temp EXCEPT ![k] = {}] /\ temp[k] \subseteq Inputs
      /\ combine = "any" /\ k \in finished
  BY <1>0 DEF Set, WhenTypeOK, RegInv
<1>b. \/ event' = event
      \/ event' = [kind |-> "value", index |-> k, tasks |-> temp[k]]
  BY DEF Set, SetEvent
<1>1. WhenTypeOK'
  <2>1. event' \in [kind : {"unset", "value", "abandoned"}, index : 0 .. Count,
                     tasks : SUBSET Inputs]
    BY <1>0, <1>a, <1>b DEF WhenTypeOK, Inputs
  <2> QED
    BY <1>0, <1>a, <2>1 DEF Set, WhenTypeOK
<1>2. DeletedWithLastRef'
  <2>1. Owners' = Owners
    BY <1>0, <1>a DEF Set, Owners, WhenTypeOK
  <2> QED
    BY <2>1, <1>0 DEF Set, DeletedWithLastRef
<1>3. RegInv'
  BY <1>0, <1>a DEF Set, RegInv, WhenTypeOK
<1>4. AllInv'
  BY <1>0, <1>a DEF Set, AllInv
<1>5. AnyInv'
  BY <1>0, <1>a, <1>b DEF Set, AnyInv, WhenTypeOK
<1> QED
  BY <1>1, <1>2, <1>3, <1>4, <1>5 DEF IInv

-----------------------------------------------------------------------------
(* Steps that remove references, and with the last one delete the state.    *)

\* What remove_ref does to the event: nothing, or what the destructor does.
LEMMA RemoveRefSets ==
    ASSUME WhenTypeOK, NEW n \in Nat, RemoveRef(n)
    PROVE  /\ event' \in [kind : {"unset", "value", "abandoned"}, index : 0 .. Count,
                           tasks : SUBSET Inputs]
           /\ event' # event => refs = n
           /\ event' # event /\ event'.kind = "value" =>
                 combine = "all" /\ event'.tasks = result
<1> USE WhenAssumption
<1>1. CASE event' = event
  BY <1>1 DEF WhenTypeOK
<1>2. CASE event' # event
  <2>1. /\ refs = n
        /\ event' = [kind |-> IF combine = "all" THEN "value" ELSE "abandoned",
                     index |-> 0, tasks |-> IF combine = "all" THEN result ELSE {}]
    BY <1>2 DEF RemoveRef, Delete, SetEvent
  <2> QED
    BY <2>1 DEF WhenTypeOK
<1> QED
  BY <1>1, <1>2

\* ... and to a state that is still there: it is deleted if these references were
\* the last.
LEMMA RemoveRefDeletes ==
    ASSUME WhenTypeOK, DeletedWithLastRef, refs # 0, NEW n \in 0 .. refs, RemoveRef(n)
    PROVE  /\ refs' = refs - n
           /\ refs' \in 0 .. Count
           /\ deletions' \in 0 .. 1
           /\ deletions' > 0 <=> refs' = 0
<1> USE WhenAssumption
<1>1. refs \in 1 .. Count /\ deletions = 0
  BY DEF WhenTypeOK, DeletedWithLastRef
<1>2. refs' = refs - n /\ deletions' = IF refs = n THEN 1 ELSE 0
  BY <1>1 DEF RemoveRef
<1> QED
  BY <1>1, <1>2

\* The registration fails: the reference of the continuation that was not added.
LEMMA ThenThrowsInv == IInv /\ ThenThrows => IInv'
<1> SUFFICES ASSUME IInv, ThenThrows PROVE IInv'
  OBVIOUS
<1> USE WhenAssumption
<1>0. WhenTypeOK /\ DeletedWithLastRef /\ RegInv /\ AllInv /\ AnyInv
  BY DEF IInv
<1>a. /\ reg.does = "then" /\ reg.at \in Inputs
      /\ reg'.does = "catch" /\ reg'.at = reg.at
      /\ reg' \in [does : {"fill", "then", "catch", "thrown", "done"}, at : Inputs]
      /\ cont' = [cont EXCEPT ![reg.at] = "over"] /\ cont[reg.at] = "none"
      /\ cont' \in [Inputs -> {"none", "added", "run", "set", "drop", "over"}]
  BY <1>0 DEF ThenThrows, Registering, WhenTypeOK, RegInv
<1>b. RemoveRef(1)
  BY DEF ThenThrows
<1>2. DeletedWithLastRef' /\ refs' \in 0 .. Count /\ deletions' \in 0 .. 1
  <2>1. Owners \in SUBSET Inputs /\ reg.at \in Owners /\ Owners' = Owners \ {reg.at}
    BY <1>0, <1>a DEF Owners, WhenTypeOK
  <2>2. /\ Cardinality(Owners) \in 1 .. Count
        /\ Cardinality(Owners') = Cardinality(Owners) - 1
        /\ refs = Cardinality(Owners)
    BY <1>0, <2>1, OwnersCounted DEF DeletedWithLastRef
  <2>3. /\ refs' = refs - 1 /\ refs' \in 0 .. Count /\ deletions' \in 0 .. 1
        /\ deletions' > 0 <=> refs' = 0
    BY <1>0, <1>b, <2>2, RemoveRefDeletes
  <2> QED
    BY <2>2, <2>3 DEF DeletedWithLastRef
<1>c. event' \in [kind : {"unset", "value", "abandoned"}, index : 0 .. Count,
                  tasks : SUBSET Inputs]
      /\ (combine = "any" /\ event'.kind = "value" => event' = event)
  BY <1>0, <1>b, RemoveRefSets
<1>1. WhenTypeOK'
  BY <1>0, <1>a, <1>2, <1>c DEF ThenThrows, WhenTypeOK
<1>3. RegInv'
  <2>1. \A i \in Inputs : i # reg.at => cont'[i] = cont[i]
    BY <1>0, <1>a DEF WhenTypeOK
  <2>2. cont'[reg.at] = "over"
    BY <1>0, <1>a DEF WhenTypeOK
  <2>3. \A i \in Inputs : cont'[i] = "none" <=> i > reg.at
    BY <1>0, <1>a, <2>1, <2>2 DEF RegInv, Inputs
  <2>4. \A i \in Inputs : cont'[i] \in {"run", "set", "drop"} => i \in finished
    BY <1>0, <2>1, <2>2 DEF RegInv
  <2>5. \A i \in Inputs : cont'[i] = "set" => combine = "any"
    BY <1>0, <2>1, <2>2 DEF RegInv
  <2>6. ~ (deletions' > 1)
    BY <1>2
  <2> QED
    BY <1>a, <2>3, <2>4, <2>5, <2>6 DEF ThenThrows, RegInv
<1>4. AllInv'
  BY <1>0, <1>a DEF ThenThrows, AllInv, Failed, WhenTypeOK
<1>5. AnyInv'
  BY <1>0, <1>a, <1>c DEF ThenThrows, AnyInv, WhenTypeOK
<1> QED
  BY <1>1, <1>2, <1>3, <1>4, <1>5 DEF IInv

\* ... and those of the inputs that the registrar did not come to.
LEMMA CatchInv == IInv /\ Catch => IInv'
<1> SUFFICES ASSUME IInv, Catch PROVE IInv'
  OBVIOUS
<1> USE WhenAssumption
<1>0. WhenTypeOK /\ DeletedWithLastRef /\ RegInv /\ AllInv /\ AnyInv
  BY DEF IInv
<1>a. /\ reg.does = "catch" /\ reg.at \in Inputs
      /\ reg'.does = "thrown" /\ reg'.at = reg.at
      /\ reg' \in [does : {"fill", "then", "catch", "thrown", "done"}, at : Inputs]
      /\ cont' = cont
  BY <1>0 DEF Catch, Registering, WhenTypeOK
<1>b. refs = Cardinality(Owners) /\ Owners \in SUBSET Inputs
  BY <1>0 DEF DeletedWithLastRef, Owners
<1>d. Owners' = Owners \ (reg.at + 1 .. Count) /\ reg.at + 1 .. Count \subseteq Owners
  BY <1>0, <1>a DEF Owners, RegInv, Inputs
<1>e. deletions \in 0 .. 1
  BY <1>0, <1>a DEF RegInv, WhenTypeOK
<1> DEFINE Rest == reg.at + 1 .. Count
           n == Count - reg.at
<1>f. n \in Nat /\ Cardinality(Rest) = n /\ IsFiniteSet(Rest)
  <2>1. reg.at \in Int /\ Count \in Int /\ reg.at <= Count
    BY <1>a DEF Inputs
  <2>2. IsFiniteSet(Rest)
    BY <2>1, FS_Interval
  <2>3. CASE reg.at = Count
    <3>1. Rest = {}
      BY <2>1, <2>3
    <3> QED
      BY <2>2, <2>3, <3>1, FS_EmptySet
  <2>4. CASE reg.at # Count
    <3> HIDE DEF Rest
    <3>1. \A a, b \in Int : a <= b => Cardinality(a .. b) = b - a + 1
      BY FS_Interval
    <3>2. Cardinality(Rest) = Count - (reg.at + 1) + 1
      BY <2>1, <2>4, <3>1 DEF Rest
    <3> QED
      BY <2>1, <2>2, <3>2
  <2> QED
    BY <2>3, <2>4
<1>g. /\ Cardinality(Owners') = Cardinality(Owners) - n
      /\ Cardinality(Owners') \in 0 .. Count
      /\ Cardinality(Owners) \in 0 .. Count
  <2>1. IsFiniteSet(Owners) /\ Owners \cap Rest = Rest
    BY <1>b, <1>d, OwnersCounted
  <2>2. Cardinality(Owners \ Rest) = Cardinality(Owners) - Cardinality(Rest)
    <3> HIDE DEF Rest
    <3> QED
      BY <2>1, FS_Difference
  <2>3. Owners' \in SUBSET Inputs
    BY <1>b, <1>d
  <2>4. Cardinality(Owners') \in 0 .. Count /\ Cardinality(Owners) \in 0 .. Count
    BY <1>b, <2>3, OwnersCounted
  <2> QED
    BY <1>d, <1>f, <2>2, <2>4
<1>h. RemoveRef(n) \/ (refs = 0 /\ UNCHANGED <<refs, event, deletions>>)
  BY DEF Catch
<1>2. DeletedWithLastRef' /\ refs' \in 0 .. Count /\ deletions' \in 0 .. 2
  <2> HIDE DEF n, Rest
  <2>1. CASE refs = 0
    <3>1. n = 0 /\ Cardinality(Owners') = 0
      BY <1>b, <1>f, <1>g, <2>1
    <3>2. refs' = 0 /\ deletions' \in {deletions, deletions + 1}
      BY <1>h, <2>1, <3>1 DEF RemoveRef
    <3>3. deletions = 1
      BY <1>0, <1>e, <2>1 DEF DeletedWithLastRef
    <3> QED
      BY <3>1, <3>2, <3>3, WhenAssumption DEF DeletedWithLastRef
  <2>2. CASE refs # 0
    <3>1. n \in 0 .. refs /\ RemoveRef(n)
      BY <1>b, <1>f, <1>g, <1>h, <2>2
    <3>2. /\ refs' = refs - n /\ refs' \in 0 .. Count /\ deletions' \in 0 .. 1
          /\ deletions' > 0 <=> refs' = 0
      BY <1>0, <2>2, <3>1, RemoveRefDeletes
    <3> QED
      BY <1>b, <1>g, <3>2 DEF DeletedWithLastRef
  <2> QED
    BY <2>1, <2>2
<1>c. /\ event' \in [kind : {"unset", "value", "abandoned"}, index : 0 .. Count,
                      tasks : SUBSET Inputs]
      /\ (combine = "any" /\ event'.kind = "value" => event' = event)
  <2> HIDE DEF n
  <2>1. CASE RemoveRef(n)
    BY <1>0, <1>f, <2>1, RemoveRefSets
  <2>2. CASE UNCHANGED event
    BY <1>0, <2>2 DEF WhenTypeOK
  <2> QED
    BY <1>h, <2>1, <2>2
<1>1. WhenTypeOK'
  BY <1>0, <1>a, <1>2, <1>c DEF Catch, WhenTypeOK
<1>3. RegInv'
  BY <1>0, <1>a DEF Catch, RegInv
<1>4. AllInv'
  BY <1>0, <1>a DEF Catch, AllInv, Failed
<1>5. AnyInv'
  BY <1>0, <1>a, <1>c DEF Catch, AnyInv
<1> QED
  BY <1>1, <1>2, <1>3, <1>4, <1>5 DEF IInv

\* The last continuation: all have been through, and every input has finished.
LEMMA DropRefInv == ASSUME NEW k \in Inputs PROVE IInv /\ DropRef(k) => IInv'
<1> SUFFICES ASSUME IInv, DropRef(k) PROVE IInv'
  OBVIOUS
<1> USE WhenAssumption
<1>0. WhenTypeOK /\ DeletedWithLastRef /\ RegInv /\ AllInv /\ AnyInv
  BY DEF IInv
<1>a. /\ cont[k] = "drop" /\ cont' = [cont EXCEPT ![k] = "over"] /\ k \in finished
      /\ cont' \in [Inputs -> {"none", "added", "run", "set", "drop", "over"}]
  BY <1>0 DEF DropRef, WhenTypeOK, RegInv
<1>b. RemoveRef(1) /\ reg' = reg
  BY DEF DropRef
<1>d. Owners \in SUBSET Inputs /\ k \in Owners /\ Owners' = Owners \ {k}
  BY <1>0, <1>a, <1>b DEF Owners, WhenTypeOK
<1>e. /\ Cardinality(Owners) \in 1 .. Count
      /\ Cardinality(Owners') = Cardinality(Owners) - 1
      /\ refs = Cardinality(Owners)
  BY <1>0, <1>d, OwnersCounted DEF DeletedWithLastRef
<1>2. DeletedWithLastRef' /\ refs' \in 0 .. Count /\ deletions' \in 0 .. 1
  <2>1. /\ refs' = refs - 1 /\ refs' \in 0 .. Count /\ deletions' \in 0 .. 1
        /\ deletions' > 0 <=> refs' = 0
    BY <1>0, <1>b, <1>e, RemoveRefDeletes
  <2> QED
    BY <1>e, <2>1 DEF DeletedWithLastRef
<1>c. event' \in [kind : {"unset", "value", "abandoned"}, index : 0 .. Count,
                  tasks : SUBSET Inputs]
      /\ (event' # event => refs = 1)
      /\ (event' # event /\ event'.kind = "value" =>
            combine = "all" /\ event'.tasks = result)
  BY <1>0, <1>b, RemoveRefSets
<1>1. WhenTypeOK'
  BY <1>0, <1>a, <1>2, <1>c DEF DropRef, WhenTypeOK
<1>3. RegInv'
  <2>1. ~ (deletions' > 1)
    BY <1>2
  <2> QED
    BY <1>0, <1>a, <2>1 DEF DropRef, RegInv, WhenTypeOK
<1>4. AllInv'
  <2>1. \A i \in Inputs : cont'[i] = "over" => i = k \/ cont[i] = "over"
    BY <1>0, <1>a DEF WhenTypeOK
  <2>2. combine = "all" => \A i \in Inputs :
           /\ cont'[i] = "drop" => i \in result'
           /\ cont'[i] = "over" => Failed' \/ (i \in finished' /\ i \in result')
    BY <1>0, <1>a, <2>1 DEF DropRef, AllInv, Failed, WhenTypeOK
  <2>3. CASE event' = event
    BY <1>0, <2>2, <2>3 DEF DropRef, AllInv, Failed
  <2>4. CASE event' # event
    <3>1. Owners' = {}
      BY <1>c, <1>d, <1>e, <2>4, OwnersCounted
    <3>2. ~ Failed' => \A i \in Inputs : cont'[i] = "over"
      BY <1>a, <3>1 DEF Owners, Failed
    <3>3. combine = "all" /\ ~ Failed' => result' = Inputs /\ finished' = Inputs
      BY <1>0, <2>2, <3>2 DEF DropRef, WhenTypeOK
    <3> QED
      BY <1>c, <2>2, <2>4, <3>3 DEF DropRef, AllInv
  <2> QED
    BY <2>3, <2>4
<1>5. AnyInv'
  BY <1>0, <1>a, <1>c DEF DropRef, AnyInv, WhenTypeOK
<1> QED
  BY <1>1, <1>2, <1>3, <1>4, <1>5 DEF IInv

-----------------------------------------------------------------------------
\* Every step keeps the invariant.
LEMMA NextInv == IInv /\ [WhenNext]_whenVars => IInv'
<1> SUFFICES ASSUME IInv, [WhenNext]_whenVars PROVE IInv'
  OBVIOUS
<1>1. CASE Fill
  BY <1>1, FillInv
<1>2. CASE Then
  BY <1>2, ThenInv
<1>3. CASE ThenThrows
  BY <1>3, ThenThrowsInv
<1>4. CASE Catch
  BY <1>4, CatchInv
<1>5. ASSUME NEW i \in Inputs, FinishInput(i) PROVE IInv'
  BY <1>5, FinishInputInv
<1>6. ASSUME NEW i \in Inputs, Continue(i) PROVE IInv'
  <2>1. CASE Keep(i)
    BY <2>1, KeepInv
  <2>2. CASE MoveOut(i)
    BY <2>2, MoveOutInv
  <2>3. CASE Set(i)
    BY <2>3, SetInv
  <2>4. CASE DropRef(i)
    BY <2>4, DropRefInv
  <2> QED
    BY <1>6, <2>1, <2>2, <2>3, <2>4 DEF Continue
<1>7. CASE UNCHANGED whenVars
  BY <1>7 DEF whenVars, IInv, WhenTypeOK, DeletedWithLastRef, Owners, RegInv, AllInv, AnyInv,
              Failed
<1> QED
  BY <1>1, <1>2, <1>3, <1>4, <1>5, <1>6, <1>7 DEF WhenNext, Register

\* The invariant holds of every behaviour.
THEOREM WhenInvariant == WhenSpec => []IInv
<1> QED
  BY InitInv, NextInv, PTL DEF WhenSpec

\* The shared state of any number of inputs is deleted with its last reference
\* and not before: no continuation that has yet to use it finds it gone, and none
\* is left over when a then() throws (when_all_any.h:47, 125, 186; ref_count.h:50).
THEOREM StateDeletedWithLastRef == WhenSpec => []DeletedWithLastRef
<1>1. IInv => DeletedWithLastRef
  BY DEF IInv
<1> QED
  BY <1>1, WhenInvariant, PTL

\* What the invariant says of the event.
LEMMA ResultInv == IInv => CombinedResult
<1> SUFFICES ASSUME IInv, event.kind = "value", ~ Failed
             PROVE  CASE combine = "all" -> finished = Inputs /\ event.tasks = Inputs
                      [] combine = "any" -> event.index \in finished
  BY DEF CombinedResult, Failed
<1>1. CASE combine = "all"
  BY <1>1 DEF IInv, AllInv
<1>2. CASE combine = "any"
  BY <1>2 DEF IInv, AnyInv
<1> QED
  BY <1>1, <1>2 DEF IInv, WhenTypeOK

\* when_all's event has a value when all inputs have finished, and when_any's
\* names one that has (when_all_any.h:58, 73).
THEOREM EventSetWithInputs == WhenSpec => []CombinedResult
BY ResultInv, WhenInvariant, PTL

-----------------------------------------------------------------------------
(* The invariant.                                                           *)

Spawned(b) == st[b] # "none"
Live(b) == st[b] \in {"queued", "running", "completed", "canceled"}
PartOf(b) == b .. frame[b].part.last
SameCall(b, c) == \E k \in Calls : b \in RangeOf(k) /\ c \in RangeOf(k)
IsKid(b, c) == b \in ToSet(frame[c].kids)
On(w, b) == b \in ToSet(stack[w])

Kinds == {"static", "auto", "invoke"}
Part == [first : Int, last : Int, grain : Nat, num : Nat, thread : Workers \cup {None}]
Pcs == {"split", "work", "join", "destroy", "finished"}
FrameType == [pc : Pcs, part : Part, kids : Seq(Items), out : Seq(Int), thrown : BOOLEAN]

Types ==
    /\ scenario \in [kind : Kinds, thrower : Nat, early : BOOLEAN]
    /\ stack \in [Workers -> Seq(Items)]
    /\ st \in [Items -> {"none", "queued", "running", "completed", "canceled", "gone"}]
    /\ held \subseteq Items
    /\ frame \in [Items -> FrameType]
    /\ runs \in [Items -> {0, 1}]

\* The parts of the tasks spawned are the calls' ranges, cut into pieces.
PartInv ==
    /\ \A k \in Calls : st[Root(k)] \notin {"none", "gone"}
    /\ \A b \in Items : Spawned(b) =>
          /\ frame[b].part.first = b
          /\ b <= frame[b].part.last
          /\ \A k \in Calls : b \in RangeOf(k) => frame[b].part.last <= Ranges[k][2]
    /\ \A b, c \in Items : Spawned(b) /\ Spawned(c) /\ b < c => frame[b].part.last < c
    /\ \A i \in Items : \E b \in Items : Spawned(b) /\ i \in PartOf(b)

\* An item is processed once its part has been worked on, unless that threw.
RunInv ==
    \A b \in Items : Spawned(b) =>
       /\ frame[b].pc \in {"split", "work"} => \A i \in PartOf(b) : runs[i] = 0
       /\ frame[b].pc \notin {"split", "work"} /\ ~ frame[b].thrown => \A i \in PartOf(b) : runs[i] = 1

\* Which tasks are on the stacks, and what their states say of their frames.
StackInv ==
    /\ \A w \in Workers : IsInjective(stack[w])
    /\ \A v, w \in Workers : \A b \in Items : On(v, b) /\ On(w, b) => v = w
    /\ \A b \in Items : b \in held => Live(b)
    /\ \A b \in Items : st[b] \in {"queued", "running"} => b \in held
    /\ \A w \in Workers : \A b \in Items : On(w, b) => b \in held /\ st[b] # "queued"
    /\ \A b \in Items : b \in held /\ st[b] # "queued" => \E w \in Workers : On(w, b)

StateInv ==
    \A b \in Items :
       /\ st[b] \in {"none", "queued"} =>
             frame[b].pc = "split" /\ frame[b].kids = <<>> /\ ~ frame[b].thrown
       /\ st[b] = "running" => frame[b].pc # "finished"
       /\ st[b] \in {"completed", "canceled", "gone"} =>
             frame[b].pc = "finished" /\ frame[b].kids = <<>>
       /\ frame[b].pc \in {"split", "work"} => ~ frame[b].thrown
       /\ st[b] = "completed" => ~ frame[b].thrown
       /\ st[b] = "canceled" => frame[b].thrown

\* A subtask belongs to one running task, of the same call, that has not got rid
\* of it; and it comes behind its parent.
KidInv ==
    /\ \A b, c \in Items : IsKid(b, c) =>
          Live(b) /\ b \notin Roots /\ c < b /\ SameCall(b, c) /\ st[c] = "running"
    /\ \A b, c, d \in Items : IsKid(b, c) /\ IsKid(b, d) => c = d
    /\ \A c \in Items : IsInjective(frame[c].kids)
    /\ \A b \in Items : Live(b) /\ b \notin Roots => \E c \in Items : IsKid(b, c)

\* Only the items behind the one that throws, in its call, are given up.
ThrownInv ==
    /\ \A b \in Items : Spawned(b) /\ frame[b].thrown =>
          \A k \in Calls : b \in RangeOf(k) => thrower \in RangeOf(k)
    /\ \A b \in Items : Spawned(b) /\ thrower \in PartOf(b)
                        /\ frame[b].pc \notin {"split", "work"} => frame[b].thrown

\* An exception is not forgotten: unless waits return early, a task is destroyed
\* only by a parent that has joined it or that has thrown as well.
Joined(c) == frame[c].kids # <<>> /\ st[Kid(c)] = "completed"

KeptInv ==
    ~ early =>
       /\ \A c \in Items : frame[c].pc = "destroy" /\ ~ frame[c].thrown => Joined(c)
       /\ \A b \in Items : Spawned(b) /\ frame[b].thrown =>
             \E c \in Items : SameCall(b, c) /\ Live(c) /\ frame[c].thrown

ParInv ==
    Types /\ PartInv /\ RunInv /\ StackInv /\ StateInv /\ KidInv /\ ThrownInv /\ KeptInv

-----------------------------------------------------------------------------
(* Sequences and numbers.                                                   *)

LEMMA LeastNat ==
    ASSUME NEW T \in SUBSET Nat, T # {}
    PROVE  \E x \in T : \A y \in T : x <= y
<1>1. PICK x \in T : \A y \in T : ~ (<<y, x>> \in OpToRel(<, Nat))
  BY WFMin, NatLessThanWellFounded
<1>2. \A y \in T : ~ (y < x)
  BY <1>1 DEF OpToRel
<1> QED
  BY <1>2

LEMMA AppendSet ==
    ASSUME NEW S, NEW s \in Seq(S), NEW e \in S
    PROVE  /\ Append(s, e) \in Seq(S) /\ ToSet(Append(s, e)) = ToSet(s) \cup {e}
           /\ Last(Append(s, e)) = e /\ Append(s, e) # <<>>
           /\ IsInjective(s) /\ e \notin ToSet(s) => IsInjective(Append(s, e))
<1>1. /\ Append(s, e) \in Seq(S) /\ Append(s, e) # <<>>
      /\ Len(Append(s, e)) = Len(s) + 1 /\ \A i \in 1 .. Len(s) : Append(s, e)[i] = s[i]
      /\ Append(s, e)[Len(s) + 1] = e /\ Len(s) \in Nat
      /\ DOMAIN s = 1 .. Len(s) /\ DOMAIN Append(s, e) = 1 .. Len(s) + 1
  BY AppendProperties, LenProperties
<1>2. /\ \A i \in 1 .. Len(s) + 1 : i \in 1 .. Len(s) \/ i = Len(s) + 1
      /\ \A i \in 1 .. Len(s) : i \in 1 .. Len(s) + 1
      /\ Len(s) + 1 \in 1 .. Len(s) + 1
  BY <1>1
<1>3. ToSet(Append(s, e)) = ToSet(s) \cup {e}
  BY <1>1, <1>2 DEF ToSet
<1> QED
  BY <1>1, <1>2, <1>3 DEF ToSet, IsInjective, Last

LEMMA FrontSet ==
    ASSUME NEW S, NEW s \in Seq(S), s # <<>>
    PROVE  /\ Front(s) \in Seq(S) /\ Last(s) \in S /\ Last(s) \in ToSet(s)
           /\ ToSet(s) = ToSet(Front(s)) \cup {Last(s)}
           /\ IsInjective(s) => IsInjective(Front(s)) /\ Last(s) \notin ToSet(Front(s))
<1>1. Len(s) \in Nat \ {0} /\ DOMAIN s = 1 .. Len(s) /\ \A i \in 1 .. Len(s) : s[i] \in S
  BY EmptySeq, LenProperties, ElementOfSeq
<1>2. /\ Front(s) \in Seq(S) /\ Len(Front(s)) = Len(s) - 1
      /\ \A i \in 1 .. Len(s) - 1 : Front(s)[i] = s[i]
  BY <1>1, SubSeqProperties DEF Front
<1>3. DOMAIN Front(s) = 1 .. Len(s) - 1
  BY <1>2, LenProperties
<1>4. /\ \A i \in 1 .. Len(s) : i \in 1 .. Len(s) - 1 \/ i = Len(s)
      /\ \A i \in 1 .. Len(s) - 1 : i \in 1 .. Len(s) /\ i # Len(s)
      /\ Len(s) \in 1 .. Len(s)
  <2>1. Len(s) \in Nat \ {0}
    BY <1>1
  <2> QED
    BY <2>1
<1>5. ToSet(s) = ToSet(Front(s)) \cup {Last(s)}
  BY <1>1, <1>2, <1>3, <1>4 DEF ToSet, Last
<1>6. IsInjective(s) => IsInjective(Front(s)) /\ Last(s) \notin ToSet(Front(s))
  BY <1>1, <1>2, <1>3, <1>4 DEF ToSet, IsInjective, Last
<1> QED
  BY <1>1, <1>2, <1>4, <1>5, <1>6 DEF Last, ToSet

LEMMA EmptySet ==
    ASSUME NEW S
    PROVE  <<>> \in Seq(S) /\ ToSet(<<>>) = {} /\ IsInjective(<<>>)
BY DEF ToSet, IsInjective

-----------------------------------------------------------------------------
(* The calls, and how a range is split.                                     *)

LEMMA CallsTyped ==
    /\ \A k \in Calls : /\ Ranges[k][1] \in Nat \ {0} /\ Ranges[k][2] \in Nat
                        /\ Ranges[k][1] <= Ranges[k][2]
                        /\ Root(k) = Ranges[k][1] /\ Root(k) \in RangeOf(k)
                        /\ RangeOf(k) \subseteq Items
    /\ \A j, k \in Calls : \A i \in RangeOf(j) \cap RangeOf(k) : j = k
    /\ \A i \in Items : i \in Nat \ {0} /\ \E k \in Calls : i \in RangeOf(k)
<1>1. \A k \in Calls : Ranges[k] \in (Nat \ {0}) \X Nat /\ Ranges[k][1] <= Ranges[k][2]
  BY ParallelAssumption, ElementOfSeq, LenProperties DEF Calls
<1>2. \A k \in Calls : Ranges[k][1] \in Nat \ {0} /\ Ranges[k][2] \in Nat /\ Ranges[k][1] <= Ranges[k][2]
  BY <1>1
<1>3. \A k \in Calls : Root(k) = Ranges[k][1] /\ Root(k) \in RangeOf(k) /\ RangeOf(k) \subseteq Items
  BY <1>2 DEF Root, RangeOf, Items
<1>4. \A j, k \in Calls : \A i \in RangeOf(j) \cap RangeOf(k) : j = k
  <2> SUFFICES ASSUME NEW j \in Calls, NEW k \in Calls, NEW i \in RangeOf(j) \cap RangeOf(k), j # k
               PROVE  FALSE
    OBVIOUS
  <2>1. Ranges[j][2] < Ranges[k][1] \/ Ranges[k][2] < Ranges[j][1]
    BY ParallelAssumption DEF Calls
  <2> QED
    BY <1>2, <2>1 DEF RangeOf
<1>5. \A i \in Items : i \in Nat \ {0} /\ \E k \in Calls : i \in RangeOf(k)
  BY <1>2 DEF RangeOf, Items
<1> QED
  BY <1>2, <1>3, <1>4, <1>5

\* A split cuts a part in two, the second of which may be empty.
IsCut(p, at, parts) ==
    /\ at \in p.first + 1 .. p.last + 1
    /\ parts.own \in Part /\ parts.own.first = p.first /\ parts.own.last = at - 1
    /\ parts.rest \in Part /\ parts.rest.first = at /\ parts.rest.last = p.last

LEMMA CutIsCut ==
    ASSUME NEW p \in Part, NEW at \in p.first + 1 .. p.last + 1
    PROVE  /\ IsCut(p, at, Cut(p, at))
           /\ Cut(p, at).own \in Part /\ Cut(p, at).rest \in Part
<1>1. p.first \in Int /\ p.last \in Int /\ at \in Int
  BY DEF Part
<1>2. [p EXCEPT !.last = at - 1] \in Part /\ [p EXCEPT !.first = at] \in Part
  BY <1>1 DEF Part
<1> QED
  BY <1>1, <1>2 DEF Cut, IsCut, Part

LEMMA SplitCuts ==
    ASSUME Types, NEW p \in Part, p.first <= p.last, NEW w \in Workers
    PROVE  \E at \in p.first + 1 .. p.last + 1 : IsCut(p, at, Split(p, w))
<1>1. /\ p.first \in Int /\ p.last \in Int /\ p.num \in Nat /\ Length(p) = p.last - p.first + 1
      /\ Length(p) \in Nat \ {0} /\ Hardware \in Nat \ {0}
  BY ParallelAssumption DEF Part, Length
<1> DEFINE half == p.first + (Length(p) + 1) \div 2
<1>2. p.last + 1 \in p.first + 1 .. p.last + 1 /\ half \in p.first + 1 .. p.last + 1
  <2>1. (Length(p) + 1) \div 2 \in 1 .. Length(p)
    BY <1>1
  <2> QED
    BY <1>1, <2>1
<1>3. IsCut(p, p.last + 1, Uncut(p)) /\ IsCut(p, half, Cut(p, half))
  BY <1>2, CutIsCut DEF Uncut
<1> HIDE DEF half
<1>4. CASE kind = "static"
  <2>1. Split(p, w) = split_static(p)
    BY <1>4 DEF Split
  <2> QED
    BY <1>2, <1>3, <2>1 DEF split_static, half
<1>5. CASE kind = "auto"
  <2>1. Split(p, w) = split_auto(p, w)
    BY <1>5 DEF Split
  <2> DEFINE num == IF p.thread # w THEN Hardware ELSE p.num
             q == [p EXCEPT !.thread = w]
             halves == Cut(q, half)
  <2>2. q \in Part /\ q.first = p.first /\ q.last = p.last /\ num \in Nat
    BY <1>1 DEF Part
  <2>3. IsCut(p, half, halves)
    <3>1. IsCut(q, half, halves)
      BY <1>2, <2>2, CutIsCut
    <3> QED
      BY <2>2, <3>1 DEF IsCut
  <2> HIDE DEF q, halves
  <2>4. num - num \div 2 \in Nat /\ num \div 2 \in Nat
    BY <2>2
  <2>5. IsCut(p, half, [own |-> [halves.own EXCEPT !.num = num - num \div 2],
                        rest |-> [halves.rest EXCEPT !.num = num \div 2]])
    <3> HIDE DEF num
    <3>1. halves.own \in Part /\ halves.rest \in Part
      BY <2>3 DEF IsCut
    <3>2. /\ [halves.own EXCEPT !.num = num - num \div 2] \in Part
          /\ [halves.rest EXCEPT !.num = num \div 2] \in Part
      BY <2>4, <3>1 DEF Part
    <3> QED
      BY <2>3, <3>1, <3>2 DEF IsCut, Part
  <2>6. \/ Split(p, w) = Uncut(p)
        \/ Split(p, w) = [own |-> [halves.own EXCEPT !.num = num - num \div 2],
                          rest |-> [halves.rest EXCEPT !.num = num \div 2]]
    BY <2>1 DEF split_auto, halves, q, half
  <2> QED
    BY <1>2, <1>3, <2>5, <2>6
<1>6. CASE kind = "invoke"
  <2>1. Split(p, w) = split_invoke(p)
    BY <1>6 DEF Split
  <2>2. Length(p) # 1 => p.first + Length(p) \div 2 \in p.first + 1 .. p.last + 1
    <3>1. Length(p) # 1 => Length(p) \div 2 \in 1 .. Length(p)
      BY <1>1
    <3> QED
      BY <1>1, <3>1
  <2> QED
    BY <1>2, <1>3, <2>1, <2>2, CutIsCut DEF split_invoke
<1> QED
  BY <1>4, <1>5, <1>6 DEF Types, Kinds, kind

-----------------------------------------------------------------------------
(* What the worker in a task's function knows of the task.                  *)

LEMMA InStack ==
    ASSUME ParInv, NEW w \in Workers, NEW b \in Items, NEW pc, In(w, b, pc)
    PROVE  /\ stack[w] \in Seq(Items) /\ stack[w] # <<>> /\ Last(stack[w]) = b
           /\ b \in ToSet(stack[w]) /\ b \in held /\ Live(b) /\ Spawned(b)
           /\ frame[b].pc = pc /\ frame[b] \in FrameType
           /\ pc # "finished" => st[b] = "running"
           /\ pc = "finished" => st[b] \in {"completed", "canceled"}
<1>1. /\ stack[w] \in Seq(Items) /\ stack[w] # <<>> /\ Last(stack[w]) = b
      /\ frame[b].pc = pc /\ frame[b] \in FrameType
  BY DEF ParInv, Types, In
<1>2. b \in ToSet(stack[w])
  BY <1>1, FrontSet
<1>3. b \in held /\ st[b] # "queued" /\ Live(b)
  BY <1>2 DEF ParInv, StackInv, On
<1>4. st[b] \in {"running", "completed", "canceled"}
  BY <1>3 DEF Live
<1> QED
  BY <1>1, <1>2, <1>3, <1>4 DEF ParInv, StateInv, Spawned

LEMMA KidIsKid ==
    ASSUME Types
    PROVE  \A c \in Items : frame[c].kids # <<>> => Kid(c) \in Items /\ IsKid(Kid(c), c)
<1> SUFFICES ASSUME NEW c \in Items, frame[c].kids # <<>> PROVE Kid(c) \in Items /\ IsKid(Kid(c), c)
  OBVIOUS
<1>1. frame[c].kids \in Seq(Items)
  BY DEF Types, FrameType
<1> QED
  BY <1>1, FrontSet DEF Kid, IsKid

LEMMA SameCallFacts ==
    /\ \A b, c \in Items : SameCall(b, c) => SameCall(c, b)
    /\ \A b \in Items : SameCall(b, b)
    /\ \A b, c, d \in Items : SameCall(b, c) /\ SameCall(c, d) => SameCall(b, d)
    /\ \A b, c \in Items : \A k \in Calls : SameCall(b, c) /\ b \in RangeOf(k) => c \in RangeOf(k)
<1>1. /\ \A j, k \in Calls : \A i \in RangeOf(j) \cap RangeOf(k) : j = k
      /\ \A i \in Items : \E k \in Calls : i \in RangeOf(k)
  BY CallsTyped
<1> QED
  BY <1>1 DEF SameCall

-----------------------------------------------------------------------------
(* Each step keeps the invariant.                                           *)

LEMMA BeginInv ==
    ASSUME ParInv, NEW w \in Workers, NEW b \in Items, Begin(w, b)
    PROVE  ParInv'
<1>0. Types /\ PartInv /\ RunInv /\ StackInv /\ StateInv /\ KidInv /\ ThrownInv /\ KeptInv
  BY DEF ParInv
<1>1. /\ st[b] = "queued" /\ st'[b] = "running" /\ \A c \in Items : c # b => st'[c] = st[c]
      /\ st' \in [Items -> {"none", "queued", "running", "completed", "canceled", "gone"}]
      /\ UNCHANGED <<scenario, held, frame, runs>>
  BY <1>0 DEF Begin, Types
<1>2. /\ stack'[w] = Append(stack[w], b) /\ \A v \in Workers : v # w => stack'[v] = stack[v]
      /\ stack[w] \in Seq(Items)
  BY <1>0 DEF Begin, Types
<1>3. /\ stack'[w] \in Seq(Items) /\ ToSet(stack'[w]) = ToSet(stack[w]) \cup {b}
      /\ IsInjective(stack[w]) /\ b \notin ToSet(stack[w]) => IsInjective(stack'[w])
  BY <1>2, AppendSet
<1>4. stack' \in [Workers -> Seq(Items)]
  BY <1>0, <1>2, <1>3 DEF Types, Begin
<1>5. b \in held /\ \A v \in Workers : ~ On(v, b)
  BY <1>0, <1>1 DEF StackInv
<1>6. (\A c \in Items : Spawned(c)' <=> Spawned(c)) /\ (\A c \in Items : Live(c)' <=> Live(c))
  BY <1>1 DEF Spawned, Live
<1>t. Types'
  BY <1>0, <1>1, <1>4 DEF Types
<1>p. PartInv'
  <2>1. \A k \in Calls : Root(k) \in Items
    BY CallsTyped
  <2> QED
    BY <1>0, <1>1, <1>6, <2>1 DEF PartInv, PartOf
<1>r. RunInv'
  BY <1>0, <1>1, <1>6 DEF RunInv, PartOf
<1>s. StackInv'
  <2>1. \A v \in Workers : IsInjective(stack'[v])
    BY <1>0, <1>2, <1>3, <1>5 DEF StackInv, On
  <2>2. \A v \in Workers : \A c \in Items : On(v, c)' <=> On(v, c) \/ (v = w /\ c = b)
    BY <1>2, <1>3 DEF On
  <2> QED
    BY <1>0, <1>1, <1>5, <1>6, <2>1, <2>2 DEF StackInv
<1>i. StateInv'
  BY <1>0, <1>1 DEF StateInv
<1>k. KidInv'
  BY <1>0, <1>1, <1>6 DEF KidInv, IsKid, SameCall
<1>h. ThrownInv'
  BY <1>0, <1>1, <1>6 DEF ThrownInv, PartOf, thrower
<1>j. KeptInv'
  <2>1. \A c \in Items : Joined(c) => Joined(c)'
    BY <1>0, <1>1, KidIsKid DEF Joined, Kid
  <2> QED
    BY <1>0, <1>1, <1>6, <2>1 DEF KeptInv, SameCall, early
<1> QED
  BY <1>t, <1>p, <1>r, <1>s, <1>i, <1>k, <1>h, <1>j DEF ParInv

\* What is left of the part is worked on next: nothing was split off.
LEMMA StartWorkInv ==
    ASSUME ParInv, NEW w \in Workers, NEW b \in Items, Fork(w, b),
           Length(Split(frame[b].part, w).rest) = 0
    PROVE  ParInv'
<1> DEFINE parts == Split(frame[b].part, w)
           own == parts.own
<1>0. Types /\ PartInv /\ RunInv /\ StackInv /\ StateInv /\ KidInv /\ ThrownInv /\ KeptInv
  BY DEF ParInv
<1>1. Spawned(b) /\ Live(b) /\ frame[b].pc = "split" /\ frame[b] \in FrameType /\ st[b] = "running"
  BY InStack DEF Fork
<1>2. /\ frame[b].part \in Part /\ frame[b].part.first = b /\ b <= frame[b].part.last
      /\ frame[b].part.last \in Int
  BY <1>0, <1>1 DEF PartInv, FrameType, Part
<1>3. PICK at \in b + 1 .. frame[b].part.last + 1 : IsCut(frame[b].part, at, parts)
  BY <1>0, <1>2, SplitCuts
<1>4. own \in Part /\ own.first = b /\ own.last = frame[b].part.last
  BY <1>2, <1>3 DEF IsCut, Length
<1> HIDE DEF own, parts
<1>5. /\ frame' = [frame EXCEPT ![b] = [frame[b] EXCEPT !.pc = "work", !.part = own]]
      /\ UNCHANGED <<scenario, stack, st, held, runs>>
  BY DEF Fork, own, parts
<1>6. /\ frame'[b].pc = "work" /\ frame'[b].part = own /\ frame'[b].kids = frame[b].kids
      /\ frame'[b].thrown = frame[b].thrown /\ frame'[b] \in FrameType
  BY <1>0, <1>1, <1>4, <1>5 DEF Types, FrameType, Pcs
<1>7. \A c \in Items : c # b => frame'[c] = frame[c]
  BY <1>0, <1>5 DEF Types
<1>8. /\ \A c \in Items : frame'[c].part.first = frame[c].part.first /\ frame'[c].part.last = frame[c].part.last
      /\ \A c \in Items : frame'[c].kids = frame[c].kids /\ frame'[c].thrown = frame[c].thrown
      /\ \A c \in Items : frame'[c].pc = frame[c].pc \/ (c = b /\ frame[c].pc = "split" /\ frame'[c].pc = "work")
  BY <1>1, <1>2, <1>4, <1>6, <1>7
<1>t. Types'
  <2>1. frame' \in [Items -> FrameType]
    BY <1>0, <1>5, <1>6 DEF Types
  <2> QED
    BY <1>0, <1>5, <2>1 DEF Types
<1>p. PartInv'
  BY <1>0, <1>5, <1>8 DEF PartInv, PartOf, Spawned
<1>r. RunInv'
  BY <1>0, <1>5, <1>8 DEF RunInv, PartOf, Spawned
<1>s. StackInv'
  BY <1>0, <1>5 DEF StackInv, On, Live
<1>i. StateInv'
  BY <1>0, <1>1, <1>5, <1>8 DEF StateInv
<1>k. KidInv'
  BY <1>0, <1>5, <1>8 DEF KidInv, IsKid, SameCall, Live
<1>h. ThrownInv'
  BY <1>0, <1>5, <1>8 DEF ThrownInv, PartOf, thrower, Spawned
<1>j. KeptInv'
  BY <1>0, <1>5, <1>8 DEF KeptInv, Joined, Kid, SameCall, Live, Spawned, early
<1> QED
  BY <1>t, <1>p, <1>r, <1>s, <1>i, <1>k, <1>h, <1>j DEF ParInv

\* The rest of the part is a new task's.
LEMMA SpawnInv ==
    ASSUME ParInv, NEW w \in Workers, NEW b \in Items, Fork(w, b),
           Length(Split(frame[b].part, w).rest) # 0
    PROVE  ParInv'
<1> DEFINE parts == Split(frame[b].part, w)
           own == parts.own
           rest == parts.rest
           last == frame[b].part.last
<1>0. Types /\ PartInv /\ RunInv /\ StackInv /\ StateInv /\ KidInv /\ ThrownInv /\ KeptInv
  BY DEF ParInv
<1>1. Spawned(b) /\ Live(b) /\ frame[b].pc = "split" /\ frame[b] \in FrameType /\ st[b] = "running"
  BY InStack DEF Fork
<1>2. /\ frame[b].part \in Part /\ frame[b].part.first = b /\ b <= last /\ last \in Int /\ b \in Nat
      /\ \A i \in PartOf(b) : runs[i] = 0
  BY <1>0, <1>1, CallsTyped DEF PartInv, RunInv, FrameType, Part
<1>3. PICK at \in b + 1 .. last + 1 : IsCut(frame[b].part, at, parts)
  BY <1>0, <1>2, SplitCuts
<1>4. /\ own \in Part /\ own.first = b /\ own.last = at - 1
      /\ rest \in Part /\ rest.first = at /\ rest.last = last /\ at \in b + 1 .. last
  BY <1>2, <1>3 DEF IsCut, Length
<1>5. /\ frame' = [[frame EXCEPT ![b] = [frame[b] EXCEPT !.part = own, !.kids = Append(frame[b].kids, at)]]
                         EXCEPT ![at] = Frame(rest)]
      /\ st' = [st EXCEPT ![at] = "queued"]
      /\ held' = held \cup {at}
      /\ UNCHANGED <<scenario, stack, runs>>
  BY <1>4 DEF Fork
<1> HIDE DEF own, rest, last, parts
<1>6. PICK k \in Calls : b \in RangeOf(k)
  BY CallsTyped
<1>7. at \in RangeOf(k) /\ at \in Items /\ at # b /\ at \in Nat
  <2>1. last <= Ranges[k][2]
    BY <1>0, <1>1, <1>6 DEF PartInv, last
  <2> QED
    BY <1>2, <1>4, <1>6, <2>1, CallsTyped DEF RangeOf
<1>8. st[at] = "none" /\ at \notin Roots /\ SameCall(at, b)
  <2>1. ~ Spawned(at)
    BY <1>0, <1>1, <1>2, <1>4, <1>7 DEF PartInv, last
  <2>2. \A j \in Calls : at # Root(j)
    BY <1>0, <2>1 DEF PartInv, Spawned
  <2> QED
    BY <1>6, <1>7, <2>1, <2>2 DEF Roots, SameCall, Spawned
<1>9. at \notin held /\ \A v \in Workers : ~ On(v, at)
  BY <1>0, <1>7, <1>8 DEF StackInv, Live
<1>10. /\ \A c \in Items : ~ IsKid(at, c)
       /\ frame[at].pc = "split" /\ frame[at].kids = <<>>
  BY <1>0, <1>7, <1>8 DEF KidInv, StateInv, Live
<1>11. /\ frame[b].kids \in Seq(Items) /\ IsInjective(frame[b].kids)
       /\ at \notin ToSet(frame[b].kids)
  BY <1>0, <1>1, <1>10 DEF KidInv, IsKid, FrameType
<1>12. /\ Append(frame[b].kids, at) \in Seq(Items)
       /\ ToSet(Append(frame[b].kids, at)) = ToSet(frame[b].kids) \cup {at}
       /\ IsInjective(Append(frame[b].kids, at))
  BY <1>7, <1>11, AppendSet
<1>13. /\ [frame[b] EXCEPT !.part = own, !.kids = Append(frame[b].kids, at)] \in FrameType
       /\ Frame(rest) \in FrameType
  <2>1. <<>> \in Seq(Items) /\ <<>> \in Seq(Int)
    OBVIOUS
  <2> QED
    BY <1>1, <1>4, <1>12, <2>1 DEF FrameType, Frame, Pcs
<1>14. /\ frame'[b] = [frame[b] EXCEPT !.part = own, !.kids = Append(frame[b].kids, at)]
       /\ frame'[at] = Frame(rest)
       /\ \A c \in Items : c # b /\ c # at => frame'[c] = frame[c]
       /\ frame' \in [Items -> FrameType]
  BY <1>0, <1>5, <1>7, <1>13 DEF Types
<1>15. /\ frame'[b].part = own /\ ToSet(frame'[b].kids) = ToSet(frame[b].kids) \cup {at}
       /\ IsInjective(frame'[b].kids) /\ frame'[b].pc = "split"
       /\ frame'[b].thrown = frame[b].thrown
  BY <1>1, <1>12, <1>14 DEF FrameType
<1>16. /\ frame'[at].part = rest /\ frame'[at].kids = <<>> /\ frame'[at].pc = "split"
       /\ frame'[at].thrown = FALSE
  BY <1>14 DEF Frame
<1>17. /\ st'[at] = "queued" /\ \A c \in Items : c # at => st'[c] = st[c]
       /\ st' \in [Items -> {"none", "queued", "running", "completed", "canceled", "gone"}]
       /\ \A c \in Items : Spawned(c)' <=> Spawned(c) \/ c = at
       /\ \A c \in Items : Live(c)' <=> Live(c) \/ c = at
  <2>1. /\ st'[at] = "queued" /\ \A c \in Items : c # at => st'[c] = st[c]
        /\ st' \in [Items -> {"none", "queued", "running", "completed", "canceled", "gone"}]
    BY <1>0, <1>5, <1>7 DEF Types
  <2> QED
    BY <2>1, <1>8 DEF Spawned, Live
<1>18. \A c, d \in Items : IsKid(c, d)' <=> IsKid(c, d) \/ (c = at /\ d = b)
  <2>1. ToSet(<<>>) = {}
    BY EmptySet
  <2> QED
    BY <1>10, <1>14, <1>15, <1>16, <2>1 DEF IsKid
<1>t. Types'
  BY <1>0, <1>5, <1>7, <1>14, <1>17 DEF Types
<1>p. PartInv'
  <2>1. \A j \in Calls : st'[Root(j)] \notin {"none", "gone"}
    BY <1>0, <1>8, <1>17, CallsTyped DEF PartInv, Roots
  <2>2. \A c \in Items : c # b /\ c # at =>
           frame'[c].part.first = frame[c].part.first /\ frame'[c].part.last = frame[c].part.last
    BY <1>14
  <2>3. /\ frame'[b].part.first = b /\ frame'[b].part.last = at - 1
        /\ frame'[at].part.first = at /\ frame'[at].part.last = last
    BY <1>4, <1>15, <1>16
  <2>4. \A c \in Items : Spawned(c)' =>
           /\ frame'[c].part.first = c
           /\ c <= frame'[c].part.last
           /\ \A j \in Calls : c \in RangeOf(j) => frame'[c].part.last <= Ranges[j][2]
    <3>1. \A j \in Calls : at \in RangeOf(j) \/ b \in RangeOf(j) => j = k
      BY <1>6, <1>7, CallsTyped
    <3>2. last <= Ranges[k][2] /\ at - 1 <= Ranges[k][2]
      BY <1>0, <1>1, <1>2, <1>4, <1>6, CallsTyped DEF PartInv, last
    <3> QED
      BY <1>0, <1>2, <1>4, <1>7, <1>17, <2>2, <2>3, <3>1, <3>2 DEF PartInv
  <2>5. \A c, d \in Items : Spawned(c)' /\ Spawned(d)' /\ c < d => frame'[c].part.last < d
    <3> SUFFICES ASSUME NEW c \in Items, NEW d \in Items, Spawned(c)', Spawned(d)', c < d
                 PROVE  frame'[c].part.last < d
      OBVIOUS
    <3>1. c \in Nat /\ d \in Nat /\ at \in Nat /\ b \in Nat
      BY <1>2, <1>7, CallsTyped
    <3>2. Spawned(c) /\ c < at /\ c # b => frame[c].part.last < b
      BY <1>0, <1>1, <1>2, <1>4, <3>1 DEF PartInv, last
    <3>3. Spawned(d) /\ b < d => last < d
      BY <1>0, <1>1 DEF PartInv, last
    <3>4. Spawned(c) /\ Spawned(d) => frame[c].part.last < d
      BY <1>0 DEF PartInv
    <3>5. Spawned(c) => frame[c].part.last \in Int
      BY <1>0 DEF Types, FrameType, Part
    <3> QED
      BY <1>1, <1>2, <1>4, <1>17, <2>2, <2>3, <3>1, <3>2, <3>3, <3>4, <3>5
  <2>6. \A i \in Items : \E c \in Items : Spawned(c)' /\ i \in PartOf(c)'
    <3> SUFFICES ASSUME NEW i \in Items PROVE \E c \in Items : Spawned(c)' /\ i \in c .. frame'[c].part.last
      BY DEF PartOf
    <3>1. PICK c \in Items : Spawned(c) /\ i \in c .. frame[c].part.last
      BY <1>0 DEF PartInv, PartOf
    <3>2. CASE c # b
      BY <1>8, <1>14, <1>17, <3>1, <3>2 DEF Spawned
    <3>3. CASE c = b
      <4>1. i \in b .. at - 1 \/ i \in at .. last
        BY <1>2, <1>4, <1>7, <3>1, <3>3, CallsTyped DEF last
      <4> QED
        BY <1>1, <1>7, <1>17, <2>3, <4>1
    <3> QED
      BY <3>2, <3>3
  <2> QED
    BY <2>1, <2>4, <2>5, <2>6 DEF PartInv
<1>r. RunInv'
  <2>1. /\ \A i \in at .. last : runs[i] = 0
        /\ \A i \in b .. at - 1 : runs[i] = 0
    <3>1. \A i \in b .. last : runs[i] = 0
      BY <1>2 DEF PartOf, last
    <3>2. at .. last \subseteq b .. last /\ b .. at - 1 \subseteq b .. last
      BY <1>2, <1>4
    <3> QED
      BY <3>1, <3>2
  <2>2. PartOf(b)' = b .. at - 1 /\ PartOf(at)' = at .. last
    BY <1>4, <1>15, <1>16 DEF PartOf
  <2>3. \A c \in Items : c # b /\ c # at => PartOf(c)' = PartOf(c) /\ frame'[c] = frame[c]
    BY <1>14 DEF PartOf
  <2>4. \A c \in Items : Spawned(c)' /\ frame'[c].pc \in {"split", "work"} =>
           \A i \in PartOf(c)' : runs[i] = 0
    <3> SUFFICES ASSUME NEW c \in Items, Spawned(c)', frame'[c].pc \in {"split", "work"}
                 PROVE  \A i \in PartOf(c)' : runs[i] = 0
      OBVIOUS
    <3>1. CASE c = b
      BY <2>1, <2>2, <3>1
    <3>2. CASE c = at
      BY <2>1, <2>2, <3>2
    <3>3. CASE c # b /\ c # at
      BY <1>0, <1>17, <2>3, <3>3 DEF RunInv
    <3> QED
      BY <3>1, <3>2, <3>3
  <2>5. \A c \in Items : Spawned(c)' /\ frame'[c].pc \notin {"split", "work"} =>
           c # b /\ c # at /\ Spawned(c)
    BY <1>15, <1>16, <1>17
  <2> QED
    BY <1>0, <1>5, <2>3, <2>4, <2>5 DEF RunInv
<1>s. StackInv'
  BY <1>0, <1>5, <1>7, <1>8, <1>9, <1>17 DEF StackInv, On
<1>i. StateInv'
  <2> SUFFICES ASSUME NEW c \in Items
               PROVE  /\ st'[c] \in {"none", "queued"} =>
                            frame'[c].pc = "split" /\ frame'[c].kids = <<>> /\ ~ frame'[c].thrown
                      /\ st'[c] = "running" => frame'[c].pc # "finished"
                      /\ st'[c] \in {"completed", "canceled", "gone"} =>
                            frame'[c].pc = "finished" /\ frame'[c].kids = <<>>
                      /\ frame'[c].pc \in {"split", "work"} => ~ frame'[c].thrown
                      /\ st'[c] = "completed" => ~ frame'[c].thrown
                      /\ st'[c] = "canceled" => frame'[c].thrown
    BY DEF StateInv
  <2>1. CASE c = b
    <3>1. st'[b] = "running" /\ ~ frame[b].thrown
      BY <1>0, <1>1, <1>7, <1>17 DEF StateInv
    <3> QED
      BY <1>15, <2>1, <3>1
  <2>2. CASE c = at
    BY <1>16, <1>17, <2>2
  <2>3. CASE c # b /\ c # at
    BY <1>0, <1>14, <1>17, <2>3 DEF StateInv
  <2> QED
    BY <2>1, <2>2, <2>3
<1>k. KidInv'
  <2>1. \A c \in Items : IsInjective(frame'[c].kids)
    <3>1. IsInjective(<<>>)
      BY EmptySet
    <3> QED
      BY <1>0, <1>14, <1>15, <1>16, <3>1 DEF KidInv
  <2>2. \A c, d \in Items : SameCall(c, d)' <=> SameCall(c, d)
    BY DEF SameCall
  <2>3. b < at
    BY <1>2, <1>4
  <2>4. \A c, d \in Items : IsKid(c, d)' =>
           Live(c)' /\ c \notin Roots /\ d < c /\ SameCall(c, d)' /\ st'[d] = "running"
    BY <1>0, <1>1, <1>7, <1>8, <1>10, <1>17, <1>18, <2>2, <2>3 DEF KidInv
  <2>5. \A c, d, e \in Items : IsKid(c, d)' /\ IsKid(c, e)' => d = e
    BY <1>0, <1>10, <1>18 DEF KidInv
  <2>6. \A c \in Items : Live(c)' /\ c \notin Roots => \E d \in Items : IsKid(c, d)'
    BY <1>0, <1>17, <1>18 DEF KidInv
  <2> QED
    BY <2>1, <2>4, <2>5, <2>6 DEF KidInv
<1>h. ThrownInv'
  <2>1. \A c \in Items : c # b /\ c # at => PartOf(c)' = PartOf(c) /\ frame'[c] = frame[c]
    BY <1>14 DEF PartOf
  <2> QED
    BY <1>0, <1>1, <1>5, <1>15, <1>16, <1>17, <2>1 DEF ThrownInv, thrower
<1>j. KeptInv'
  <2>1. \A c \in Items : c # b /\ Joined(c) => Joined(c)'
    BY <1>0, <1>5, <1>10, <1>14, <1>17, KidIsKid DEF Joined, Kid
  <2>2. /\ \A c \in Items : frame'[c].pc = "destroy" => c # b /\ frame'[c] = frame[c]
        /\ \A c \in Items : frame[c].thrown => c # b /\ c # at /\ frame'[c].thrown
        /\ \A c \in Items : Spawned(c)' /\ frame'[c].thrown => Spawned(c) /\ frame[c].thrown
    <3>1. ~ frame[b].thrown /\ ~ frame[at].thrown
      BY <1>0, <1>1, <1>7, <1>8 DEF StateInv
    <3> QED
      BY <1>14, <1>15, <1>16, <1>17, <3>1
  <2>3. (\A c, d \in Items : SameCall(c, d)' <=> SameCall(c, d)) /\ (early' <=> early)
    BY <1>5 DEF SameCall, early
  <2> QED
    BY <1>0, <1>17, <2>1, <2>2, <2>3 DEF KeptInv
<1> QED
  BY <1>t, <1>p, <1>r, <1>s, <1>i, <1>k, <1>h, <1>j DEF ParInv

LEMMA WorkInv ==
    ASSUME ParInv, NEW w \in Workers, NEW b \in Items, Work(w, b)
    PROVE  ParInv'
<1> DEFINE part == frame[b].part
           throws == thrower \in PartOf(b)
           done == b .. (IF throws THEN thrower ELSE part.last)
           out == <<Start>> \o UpTo(b, part.last)
<1>0. Types /\ PartInv /\ RunInv /\ StackInv /\ StateInv /\ KidInv /\ ThrownInv /\ KeptInv
  BY DEF ParInv
<1>1. /\ Spawned(b) /\ Live(b) /\ frame[b].pc = "work" /\ frame[b] \in FrameType
      /\ st[b] = "running" /\ ~ frame[b].thrown
  BY <1>0, InStack DEF Work, StateInv
<1>2. /\ part \in Part /\ part.first = b /\ b <= part.last /\ part.last \in Int /\ b \in Nat
      /\ \A i \in PartOf(b) : runs[i] = 0
  BY <1>0, <1>1, CallsTyped DEF PartInv, RunInv, FrameType, Part
<1>3. /\ done \subseteq PartOf(b) /\ (throws <=> thrower \in done) /\ (~ throws => done = PartOf(b))
  <2>1. thrower \in Int
    BY <1>0 DEF Types, thrower
  <2> QED
    BY <1>2, <2>1 DEF PartOf
<1>4. out \in Seq(Int)
  <2>1. part.last - b + 1 \in Nat /\ \A n \in 1 .. part.last - b + 1 : b + n - 1 \in Int
    BY <1>2
  <2>2. UpTo(b, part.last) \in Seq(Int)
    BY <2>1, IsASeq DEF UpTo
  <2>3. <<Start>> \in Seq(Int)
    BY DEF Start
  <2> QED
    BY <2>2, <2>3, ConcatProperties
<1>5. /\ runs' = [i \in Items |-> IF i \in done THEN runs[i] + 1 ELSE runs[i]]
      /\ \/ throws /\ frame' = [frame EXCEPT ![b] = [frame[b] EXCEPT !.pc = "destroy", !.thrown = TRUE]]
         \/ ~ throws /\ frame' = [frame EXCEPT ![b] = [frame[b] EXCEPT !.pc = "join", !.out = out]]
      /\ UNCHANGED <<scenario, stack, st, held>>
  <2>1. done = part.first .. (IF thrower \in part.first .. part.last THEN thrower ELSE part.last)
    BY <1>2 DEF PartOf
  <2> QED
    BY <1>2, <1>3, <2>1 DEF Work
<1> HIDE DEF done, out
<1>6. /\ frame'[b] \in FrameType /\ frame'[b].kids = frame[b].kids /\ frame'[b].part = frame[b].part
      /\ \/ throws /\ frame'[b].pc = "destroy" /\ frame'[b].thrown
         \/ ~ throws /\ frame'[b].pc = "join" /\ ~ frame'[b].thrown
  <2>1. /\ [frame[b] EXCEPT !.pc = "destroy", !.thrown = TRUE] \in FrameType
        /\ [frame[b] EXCEPT !.pc = "join", !.out = out] \in FrameType
    BY <1>1, <1>4 DEF FrameType, Pcs
  <2>2. \/ throws /\ frame'[b] = [frame[b] EXCEPT !.pc = "destroy", !.thrown = TRUE]
        \/ ~ throws /\ frame'[b] = [frame[b] EXCEPT !.pc = "join", !.out = out]
    BY <1>0, <1>5 DEF Types
  <2> QED
    BY <1>1, <2>1, <2>2 DEF FrameType
<1>7. /\ \A c \in Items : c # b => frame'[c] = frame[c]
      /\ frame' \in [Items -> FrameType]
  BY <1>0, <1>5, <1>6 DEF Types
<1>8. \A c \in Items : frame'[c].part = frame[c].part /\ frame'[c].kids = frame[c].kids
  BY <1>6, <1>7
<1>9. /\ runs' \in [Items -> {0, 1}]
      /\ \A i \in done : i \in Items => runs'[i] = 1
      /\ \A i \in Items : i \notin PartOf(b) => runs'[i] = runs[i]
  <2>1. \A i \in Items : runs'[i] = IF i \in done THEN runs[i] + 1 ELSE runs[i]
    BY <1>5
  <2>2. \A i \in Items : runs[i] \in {0, 1} /\ (i \in done => runs[i] = 0)
    BY <1>0, <1>2, <1>3 DEF Types
  <2>3. \A i \in Items : runs'[i] \in {0, 1} /\ (i \in done => runs'[i] = 1)
    BY <2>1, <2>2
  <2> QED
    BY <1>3, <1>5, <2>1, <2>3
<1>t. Types'
  BY <1>0, <1>5, <1>7, <1>9 DEF Types
<1>p. PartInv'
  BY <1>0, <1>5, <1>8 DEF PartInv, PartOf, Spawned
<1>10. \A c \in Items : PartOf(c)' = PartOf(c)
  BY <1>8 DEF PartOf
<1>11. \A c \in Items : Spawned(c) => PartOf(c) \subseteq Items
  <2> SUFFICES ASSUME NEW c \in Items, Spawned(c), NEW i \in PartOf(c) PROVE i \in Items
    OBVIOUS
  <2>1. PICK k \in Calls : c \in RangeOf(k)
    BY CallsTyped
  <2>2. frame[c].part.last <= Ranges[k][2] /\ frame[c].part.last \in Int
    BY <1>0, <2>1 DEF PartInv, Types, FrameType, Part
  <2>3. i \in RangeOf(k)
    BY <2>1, <2>2, CallsTyped DEF PartOf, RangeOf
  <2> QED
    BY <2>3, CallsTyped
<1>12. \A c \in Items : Spawned(c) /\ c # b => PartOf(c) \cap PartOf(b) = {}
  <2> SUFFICES ASSUME NEW c \in Items, Spawned(c), c # b, NEW i \in PartOf(c), i \in PartOf(b) PROVE FALSE
    OBVIOUS
  <2>1. c < b \/ b < c
    BY <1>2, CallsTyped
  <2>2. frame[c].part.last \in Int /\ c \in Nat
    BY <1>0, CallsTyped DEF Types, FrameType, Part
  <2>3. frame[c].part.last < b \/ part.last < c
    BY <1>0, <1>1, <2>1 DEF PartInv
  <2> QED
    BY <1>2, <2>2, <2>3 DEF PartOf
<1>r. RunInv'
  <2> SUFFICES ASSUME NEW c \in Items, Spawned(c)
               PROVE  /\ frame'[c].pc \in {"split", "work"} => \A i \in PartOf(c) : runs'[i] = 0
                      /\ frame'[c].pc \notin {"split", "work"} /\ ~ frame'[c].thrown =>
                            \A i \in PartOf(c) : runs'[i] = 1
    BY <1>5, <1>10 DEF RunInv, Spawned
  <2>1. CASE c = b
    BY <1>1, <1>3, <1>6, <1>9, <1>11, <2>1
  <2>2. CASE c # b
    <3>1. \A i \in PartOf(c) : runs'[i] = runs[i]
      BY <1>9, <1>11, <1>12, <2>2
    <3> QED
      BY <1>0, <1>7, <2>2, <3>1 DEF RunInv
  <2> QED
    BY <2>1, <2>2
<1>s. StackInv'
  BY <1>0, <1>5 DEF StackInv, On, Live
<1>i. StateInv'
  BY <1>0, <1>1, <1>5, <1>6, <1>7 DEF StateInv
<1>k. KidInv'
  BY <1>0, <1>5, <1>8 DEF KidInv, IsKid, SameCall, Live
<1>h. ThrownInv'
  <2>1. throws => \A k \in Calls : b \in RangeOf(k) => thrower \in RangeOf(k)
    <3> SUFFICES ASSUME throws, NEW k \in Calls, b \in RangeOf(k) PROVE thrower \in RangeOf(k)
      OBVIOUS
    <3>1. part.last <= Ranges[k][2]
      BY <1>0, <1>1 DEF PartInv
    <3>2. thrower \in Nat
      BY <1>0 DEF Types, thrower
    <3> QED
      BY <1>2, <3>1, <3>2, CallsTyped DEF PartOf, RangeOf
  <2>2. thrower' = thrower
    BY <1>5 DEF thrower
  <2>3. \A c \in Items : Spawned(c)' <=> Spawned(c)
    BY <1>5 DEF Spawned
  <2> HIDE DEF part
  <2>4. \A c \in Items : Spawned(c) /\ frame'[c].thrown =>
           \A k \in Calls : c \in RangeOf(k) => thrower \in RangeOf(k)
    BY <1>0, <1>6, <1>7, <2>1 DEF ThrownInv
  <2>5. \A c \in Items : Spawned(c) /\ thrower \in PartOf(c)
                        /\ frame'[c].pc \notin {"split", "work"} => frame'[c].thrown
    BY <1>0, <1>6, <1>7 DEF ThrownInv
  <2> QED
    BY <1>10, <2>2, <2>3, <2>4, <2>5 DEF ThrownInv
<1>j. KeptInv'
  <2>1. \A c \in Items : Joined(c) => Joined(c)'
    BY <1>5, <1>8 DEF Joined, Kid
  <2>2. /\ (early' <=> early) /\ (\A c, d \in Items : SameCall(c, d)' <=> SameCall(c, d))
        /\ (\A c \in Items : Spawned(c)' <=> Spawned(c)) /\ (\A c \in Items : Live(c)' <=> Live(c))
    BY <1>5 DEF early, SameCall, Spawned, Live
  <2>3. \A c \in Items : frame'[c].pc = "destroy" /\ ~ frame'[c].thrown =>
           frame[c].pc = "destroy" /\ ~ frame[c].thrown
    BY <1>6, <1>7
  <2>4. \A c \in Items : frame'[c].thrown => frame[c].thrown \/ c = b
    BY <1>7
  <2>5. \A c \in Items : frame[c].thrown => frame'[c].thrown
    BY <1>1, <1>7
  <2>6. b \in Items /\ SameCall(b, b)
    BY SameCallFacts
  <2>7. ~ early => \A c \in Items : Spawned(c) /\ frame'[c].thrown =>
                      \E d \in Items : SameCall(c, d) /\ Live(d) /\ frame'[d].thrown
    BY <1>0, <1>1, <2>4, <2>5, <2>6 DEF KeptInv
  <2>8. ~ early => \A c \in Items : frame'[c].pc = "destroy" /\ ~ frame'[c].thrown => Joined(c)
    BY <1>0, <2>3 DEF KeptInv
  <2> QED
    BY <2>1, <2>2, <2>7, <2>8 DEF KeptInv
<1> QED
  BY <1>t, <1>p, <1>r, <1>s, <1>i, <1>k, <1>h, <1>j DEF ParInv

LEMMA JoinInv ==
    ASSUME ParInv, NEW w \in Workers, NEW b \in Items, Join(w, b)
    PROVE  ParInv'
<1> DEFINE kid == Kid(b)
<1>0. Types /\ PartInv /\ RunInv /\ StackInv /\ StateInv /\ KidInv /\ ThrownInv /\ KeptInv
  BY DEF ParInv
<1>1. /\ Spawned(b) /\ Live(b) /\ frame[b].pc = "join" /\ frame[b] \in FrameType
      /\ st[b] = "running" /\ frame[b].kids # <<>> /\ kid \in Items /\ IsKid(kid, b)
  BY <1>0, InStack, KidIsKid DEF Join
<1>2. Live(kid) /\ SameCall(kid, b)
  BY <1>0, <1>1 DEF KidInv
<1>3. UNCHANGED <<scenario, stack, st, held, runs>>
  BY DEF Join
<1>4. /\ frame[b].out \o frame[kid].out \in Seq(Int) /\ frame[b].out \o <<Unset>> \in Seq(Int)
  <2>1. frame[b].out \in Seq(Int) /\ frame[kid].out \in Seq(Int) /\ <<Unset>> \in Seq(Int)
    BY <1>0, <1>1 DEF Types, FrameType, Unset
  <2> QED
    BY <2>1, ConcatProperties
<1>5. \/ /\ st[kid] = "canceled"
         /\ frame' = [frame EXCEPT ![b] = [frame[b] EXCEPT !.pc = "destroy", !.thrown = TRUE]]
      \/ /\ st[kid] = "completed" \/ early
         /\ \E out \in Seq(Int) :
               frame' = [frame EXCEPT ![b] = [frame[b] EXCEPT !.pc = "destroy", !.out = out]]
  BY <1>4 DEF Join
<1> HIDE DEF kid
<1>6. /\ frame'[b] \in FrameType /\ frame'[b].kids = frame[b].kids /\ frame'[b].part = frame[b].part
      /\ frame'[b].pc = "destroy"
      /\ \/ st[kid] = "canceled" /\ frame'[b].thrown
         \/ (st[kid] = "completed" \/ early) /\ frame'[b].thrown = frame[b].thrown
  <2>1. /\ [frame[b] EXCEPT !.pc = "destroy", !.thrown = TRUE] \in FrameType
        /\ \A out \in Seq(Int) : [frame[b] EXCEPT !.pc = "destroy", !.out = out] \in FrameType
    BY <1>1 DEF FrameType, Pcs
  <2>2. \/ st[kid] = "canceled" /\ frame'[b] = [frame[b] EXCEPT !.pc = "destroy", !.thrown = TRUE]
        \/ /\ st[kid] = "completed" \/ early
           /\ \E out \in Seq(Int) : frame'[b] = [frame[b] EXCEPT !.pc = "destroy", !.out = out]
    BY <1>0, <1>5 DEF Types
  <2>3. CASE st[kid] = "canceled" /\ frame'[b] = [frame[b] EXCEPT !.pc = "destroy", !.thrown = TRUE]
    BY <1>1, <2>1, <2>3 DEF FrameType
  <2>4. ASSUME st[kid] = "completed" \/ early, NEW out \in Seq(Int),
               frame'[b] = [frame[b] EXCEPT !.pc = "destroy", !.out = out]
        PROVE  /\ frame'[b] \in FrameType /\ frame'[b].kids = frame[b].kids
               /\ frame'[b].part = frame[b].part
               /\ frame'[b].pc = "destroy" /\ frame'[b].thrown = frame[b].thrown
    BY <1>1, <2>1, <2>4 DEF FrameType
  <2> QED
    BY <2>2, <2>3, <2>4
<1>7. /\ \A c \in Items : c # b => frame'[c] = frame[c]
      /\ frame' \in [Items -> FrameType]
  BY <1>0, <1>5, <1>6 DEF Types
<1>8. /\ \A c \in Items : frame'[c].part = frame[c].part /\ frame'[c].kids = frame[c].kids
      /\ \A c \in Items : frame[c].thrown => frame'[c].thrown
  BY <1>6, <1>7
<1>9. /\ \A c \in Items : PartOf(c)' = PartOf(c)
      /\ \A c \in Items : (Spawned(c)' <=> Spawned(c)) /\ (Live(c)' <=> Live(c))
      /\ \A c, d \in Items : SameCall(c, d)' <=> SameCall(c, d)
      /\ (early' <=> early) /\ thrower' = thrower
  BY <1>3, <1>8 DEF PartOf, Spawned, Live, SameCall, early, thrower
<1>t. Types'
  BY <1>0, <1>3, <1>7 DEF Types
<1>p. PartInv'
  BY <1>0, <1>3, <1>8 DEF PartInv, PartOf, Spawned
<1>r. RunInv'
  <2>1. frame[b].pc \notin {"split", "work"} /\ frame'[b].pc \notin {"split", "work"}
        /\ (frame[b].thrown => frame'[b].thrown)
    BY <1>1, <1>6
  <2> QED
    BY <1>0, <1>3, <1>7, <1>9, <2>1 DEF RunInv
<1>s. StackInv'
  BY <1>0, <1>3 DEF StackInv, On, Live
<1>i. StateInv'
  BY <1>0, <1>1, <1>3, <1>6, <1>7 DEF StateInv
<1>k. KidInv'
  BY <1>0, <1>3, <1>8 DEF KidInv, IsKid, SameCall, Live
<1>h. ThrownInv'
  <2>1. st[kid] = "canceled" => Spawned(kid) /\ frame[kid].thrown
    BY <1>0, <1>1 DEF StateInv, Spawned
  <2>2. st[kid] = "canceled" => \A k \in Calls : b \in RangeOf(k) => thrower \in RangeOf(k)
    BY <1>0, <1>1, <1>2, <2>1, SameCallFacts DEF ThrownInv
  <2>3. \A c \in Items : Spawned(c) /\ frame'[c].thrown =>
           \A k \in Calls : c \in RangeOf(k) => thrower \in RangeOf(k)
    BY <1>0, <1>6, <1>7, <2>2 DEF ThrownInv
  <2>4. \A c \in Items : Spawned(c) /\ thrower \in PartOf(c)
                        /\ frame'[c].pc \notin {"split", "work"} => frame'[c].thrown
    BY <1>0, <1>1, <1>6, <1>7 DEF ThrownInv
  <2> QED
    BY <1>9, <2>3, <2>4 DEF ThrownInv
<1>j. KeptInv'
  <2>1. \A c \in Items : Joined(c) => Joined(c)'
    BY <1>3, <1>8 DEF Joined, Kid
  <2>2. ~ early => \A c \in Items : frame'[c].pc = "destroy" /\ ~ frame'[c].thrown => Joined(c)
    BY <1>0, <1>1, <1>6, <1>7 DEF KeptInv, Joined, kid
  <2>3. frame'[b].thrown => frame[b].thrown \/ (Spawned(b) /\ Live(b) /\ SameCall(b, b))
    BY <1>1, SameCallFacts
  <2>4. ~ early => \A c \in Items : Spawned(c) /\ frame'[c].thrown =>
                      \E d \in Items : SameCall(c, d) /\ Live(d) /\ frame'[d].thrown
    BY <1>0, <1>1, <1>7, <1>8, <2>3 DEF KeptInv
  <2> QED
    BY <1>9, <2>1, <2>2, <2>4 DEF KeptInv
<1> QED
  BY <1>t, <1>p, <1>r, <1>s, <1>i, <1>k, <1>h, <1>j DEF ParInv

LEMMA DestroyInv ==
    ASSUME ParInv, NEW w \in Workers, NEW b \in Items, Destroy(w, b)
    PROVE  ParInv'
<1>0. Types /\ PartInv /\ RunInv /\ StackInv /\ StateInv /\ KidInv /\ ThrownInv /\ KeptInv
  BY DEF ParInv
<1>1. PICK kid \in Items : kid = Kid(b) /\ IsKid(kid, b)
  BY <1>0, KidIsKid DEF Destroy
<1>2. /\ Spawned(b) /\ Live(b) /\ frame[b].pc = "destroy" /\ frame[b] \in FrameType
      /\ st[b] = "running" /\ frame[b].kids # <<>> /\ frame[b].kids \in Seq(Items)
  BY <1>0, InStack DEF Destroy, FrameType
<1>3. /\ Live(kid) /\ SameCall(kid, b) /\ kid \notin Roots /\ kid # b /\ b \notin ToSet(frame[b].kids)
      /\ kid \notin held /\ st[kid] \in {"completed", "canceled"}
  BY <1>0, <1>1, <1>2, CallsTyped DEF KidInv, StackInv, Live, Destroy, IsKid
<1>4. frame[kid].pc = "finished" /\ frame[kid].kids = <<>> /\ Spawned(kid)
  BY <1>0, <1>3 DEF StateInv, Spawned
<1>5. /\ Front(frame[b].kids) \in Seq(Items) /\ kid \notin ToSet(Front(frame[b].kids))
      /\ ToSet(frame[b].kids) = ToSet(Front(frame[b].kids)) \cup {kid}
      /\ IsInjective(Front(frame[b].kids))
  <2>1. IsInjective(frame[b].kids)
    BY <1>0 DEF KidInv
  <2> QED
    BY <1>1, <1>2, <2>1, FrontSet DEF Kid
<1> DEFINE pc == IF frame[b].thrown THEN "destroy" ELSE "join"
<1>6. /\ frame' = [frame EXCEPT ![b] = [frame[b] EXCEPT !.kids = Front(frame[b].kids), !.pc = pc]]
      /\ st' = [st EXCEPT ![kid] = "gone"]
      /\ UNCHANGED <<scenario, stack, held, runs>>
  BY <1>1 DEF Destroy
<1>7. /\ frame'[b] \in FrameType /\ frame'[b].kids = Front(frame[b].kids)
      /\ frame'[b].part = frame[b].part /\ frame'[b].thrown = frame[b].thrown
      /\ frame'[b].pc \in {"join", "destroy"} /\ (frame'[b].pc = "destroy" => frame[b].thrown)
  <2>1. [frame[b] EXCEPT !.kids = Front(frame[b].kids), !.pc = pc] \in FrameType
    BY <1>2, <1>5 DEF FrameType, Pcs
  <2>2. frame'[b] = [frame[b] EXCEPT !.kids = Front(frame[b].kids), !.pc = pc]
    BY <1>0, <1>6 DEF Types
  <2> QED
    BY <1>2, <2>1, <2>2 DEF FrameType
<1> HIDE DEF pc
<1>8. /\ \A c \in Items : c # b => frame'[c] = frame[c]
      /\ frame' \in [Items -> FrameType]
      /\ \A c \in Items : frame'[c].part = frame[c].part /\ frame'[c].thrown = frame[c].thrown
  BY <1>0, <1>6, <1>7 DEF Types
<1>9. /\ st'[kid] = "gone" /\ \A c \in Items : c # kid => st'[c] = st[c]
      /\ st' \in [Items -> {"none", "queued", "running", "completed", "canceled", "gone"}]
  BY <1>0, <1>6 DEF Types
<1>10. /\ \A c \in Items : Spawned(c)' <=> Spawned(c)
       /\ \A c \in Items : Live(c)' <=> Live(c) /\ c # kid
  BY <1>4, <1>9 DEF Spawned, Live
<1>11. /\ \A c \in Items : PartOf(c)' = PartOf(c)
       /\ \A c, d \in Items : SameCall(c, d)' <=> SameCall(c, d)
       /\ (early' <=> early) /\ thrower' = thrower
  BY <1>6, <1>8 DEF PartOf, SameCall, early, thrower
<1>12. \A c, d \in Items : IsKid(c, d)' <=> IsKid(c, d) /\ c # kid
  <2>1. \A d \in Items : IsKid(kid, d) => d = b
    BY <1>0, <1>1 DEF KidInv
  <2> QED
    BY <1>5, <1>7, <1>8, <2>1 DEF IsKid
<1>t. Types'
  BY <1>0, <1>6, <1>8, <1>9 DEF Types
<1>p. PartInv'
  <2>1. \A j \in Calls : st'[Root(j)] \notin {"none", "gone"}
    <3> SUFFICES ASSUME NEW j \in Calls
                 PROVE  st'[Root(j)] \notin {"none", "gone"}
      OBVIOUS
    <3>1. Root(j) \in Items /\ Root(j) # kid
      BY <1>3, CallsTyped DEF Roots
    <3> QED
      BY <1>0, <1>9, <3>1 DEF PartInv
  <2> QED
    BY <1>0, <1>8, <1>10, <1>11, <2>1 DEF PartInv
<1>r. RunInv'
  BY <1>0, <1>2, <1>6, <1>7, <1>8, <1>10, <1>11 DEF RunInv
<1>s. StackInv'
  <2>1. \A v \in Workers : ~ On(v, kid)
    BY <1>0, <1>3 DEF StackInv
  <2>2. \A v \in Workers : \A c \in Items : On(v, c)' <=> On(v, c)
    BY <1>6 DEF On
  <2> QED
    BY <1>0, <1>3, <1>6, <1>9, <1>10, <2>1, <2>2 DEF StackInv
<1>i. StateInv'
  <2> DEFINE Fits(c) ==
         /\ st[c] \in {"none", "queued"} =>
               frame[c].pc = "split" /\ frame[c].kids = <<>> /\ ~ frame[c].thrown
         /\ st[c] = "running" => frame[c].pc # "finished"
         /\ st[c] \in {"completed", "canceled", "gone"} =>
               frame[c].pc = "finished" /\ frame[c].kids = <<>>
         /\ frame[c].pc \in {"split", "work"} => ~ frame[c].thrown
         /\ st[c] = "completed" => ~ frame[c].thrown
         /\ st[c] = "canceled" => frame[c].thrown
  <2>0. \A c \in Items : Fits(c)
    BY <1>0 DEF StateInv
  <2>1. frame'[kid] = frame[kid] /\ st'[kid] = "gone" /\ frame[kid].pc = "finished"
        /\ frame[kid].kids = <<>>
    BY <1>3, <1>4, <1>8, <1>9
  <2>2. Fits(kid)'
    BY <2>1
  <2>3. Fits(b)'
    BY <1>2, <1>3, <1>7, <1>9
  <2>4. ASSUME NEW c \in Items, c # b, c # kid PROVE Fits(c)'
    <3>1. frame'[c] = frame[c] /\ st'[c] = st[c]
      BY <1>8, <1>9, <2>4
    <3> QED
      BY <2>0, <3>1
  <2> QED
    BY <2>2, <2>3, <2>4 DEF StateInv
<1>k. KidInv'
  <2>1. \A c \in Items : IsInjective(frame'[c].kids)
    BY <1>0, <1>5, <1>7, <1>8 DEF KidInv
  <2>2. \A c, d \in Items : IsKid(c, d)' =>
           Live(c)' /\ c \notin Roots /\ d < c /\ SameCall(c, d)' /\ st'[d] = "running"
    <3>1. st[kid] # "running"
      BY <1>3
    <3> QED
      BY <1>0, <1>9, <1>10, <1>11, <1>12, <3>1 DEF KidInv
  <2>3. \A c, d, e \in Items : IsKid(c, d)' /\ IsKid(c, e)' => d = e
    BY <1>0, <1>12 DEF KidInv
  <2>4. \A c \in Items : Live(c)' /\ c \notin Roots => \E d \in Items : IsKid(c, d)'
    BY <1>0, <1>10, <1>12 DEF KidInv
  <2> QED
    BY <2>1, <2>2, <2>3, <2>4 DEF KidInv
<1>h. ThrownInv'
  BY <1>0, <1>2, <1>7, <1>8, <1>10, <1>11 DEF ThrownInv
<1>j. KeptInv'
  <2>1. \A c \in Items : c # b /\ frame'[c].pc = "destroy" /\ Joined(c) => Joined(c)'
    <3> SUFFICES ASSUME NEW c \in Items, c # b, Joined(c) PROVE Joined(c)'
      OBVIOUS
    <3>1. Kid(c) \in Items /\ IsKid(Kid(c), c) /\ frame'[c].kids = frame[c].kids
      BY <1>0, <1>8, KidIsKid DEF Joined
    <3>2. Kid(c) # kid
      BY <1>0, <1>1, <3>1 DEF KidInv
    <3> QED
      BY <1>9, <3>1, <3>2 DEF Joined, Kid
  <2>2. ~ early => \A c \in Items : frame'[c].pc = "destroy" /\ ~ frame'[c].thrown => Joined(c)'
    BY <1>0, <1>7, <1>8, <2>1 DEF KeptInv
  <2>3. ~ early /\ frame[kid].thrown => frame[b].thrown
    <3>1. frame[kid].thrown => st[kid] # "completed"
      BY <1>0, <1>3 DEF StateInv
    <3> QED
      BY <1>0, <1>1, <1>2, <3>1 DEF KeptInv, Joined
  <2>4. ~ early => \A c \in Items : Spawned(c) /\ frame[c].thrown =>
                      \E d \in Items : SameCall(c, d) /\ Live(d) /\ frame[d].thrown /\ d # kid
    <3> SUFFICES ASSUME ~ early, NEW c \in Items, Spawned(c), frame[c].thrown
                 PROVE  \E d \in Items : SameCall(c, d) /\ Live(d) /\ frame[d].thrown /\ d # kid
      OBVIOUS
    <3>1. PICK d \in Items : SameCall(c, d) /\ Live(d) /\ frame[d].thrown
      BY <1>0 DEF KeptInv
    <3>2. d = kid => SameCall(c, b) /\ frame[b].thrown
      BY <1>3, <2>3, <3>1, SameCallFacts
    <3> QED
      BY <1>2, <1>3, <3>1, <3>2
  <2> QED
    BY <1>8, <1>10, <1>11, <2>2, <2>4 DEF KeptInv
<1> QED
  BY <1>t, <1>p, <1>r, <1>s, <1>i, <1>k, <1>h, <1>j DEF ParInv

LEMMA FinishInv ==
    ASSUME ParInv, NEW w \in Workers, NEW b \in Items, Finish(w, b)
    PROVE  ParInv'
<1> DEFINE end == IF frame[b].thrown THEN "canceled" ELSE "completed"
<1>0. Types /\ PartInv /\ RunInv /\ StackInv /\ StateInv /\ KidInv /\ ThrownInv /\ KeptInv
  BY DEF ParInv
<1>1. /\ Spawned(b) /\ Live(b) /\ frame[b].pc \in {"join", "destroy"} /\ frame[b] \in FrameType
      /\ st[b] = "running" /\ frame[b].kids = <<>> /\ b \in held
  BY InStack DEF Finish
<1>2. /\ frame' = [frame EXCEPT ![b] = [frame[b] EXCEPT !.pc = "finished"]]
      /\ st' = [st EXCEPT ![b] = end]
      /\ UNCHANGED <<scenario, stack, held, runs>>
  BY DEF Finish
<1>3. /\ frame'[b].kids = <<>> /\ frame'[b].part = frame[b].part /\ frame'[b].thrown = frame[b].thrown
      /\ frame'[b].pc = "finished" /\ frame'[b] \in FrameType
      /\ \A c \in Items : c # b => frame'[c] = frame[c]
      /\ frame' \in [Items -> FrameType]
  BY <1>0, <1>1, <1>2 DEF Types, FrameType, Pcs
<1>4. /\ st'[b] \in {"completed", "canceled"} /\ (st'[b] = "canceled" <=> frame[b].thrown)
      /\ \A c \in Items : c # b => st'[c] = st[c]
      /\ st' \in [Items -> {"none", "queued", "running", "completed", "canceled", "gone"}]
  BY <1>0, <1>2 DEF Types
<1>5. /\ \A c \in Items : (Spawned(c)' <=> Spawned(c)) /\ (Live(c)' <=> Live(c))
      /\ \A c \in Items : PartOf(c)' = PartOf(c)
      /\ \A c, d \in Items : (SameCall(c, d)' <=> SameCall(c, d)) /\ (IsKid(c, d)' <=> IsKid(c, d))
      /\ (early' <=> early) /\ thrower' = thrower
  BY <1>1, <1>2, <1>3, <1>4 DEF Spawned, Live, PartOf, SameCall, IsKid, early, thrower
<1>6. /\ \A c \in Items : frame'[c].part = frame[c].part /\ frame'[c].thrown = frame[c].thrown
                          /\ frame'[c].kids = frame[c].kids
      /\ \A c \in Items : ~ IsKid(c, b)
  <2>1. ToSet(<<>>) = {}
    BY EmptySet
  <2> QED
    BY <1>1, <1>3, <2>1 DEF IsKid
<1>t. Types'
  BY <1>0, <1>2, <1>3, <1>4 DEF Types
<1>p. PartInv'
  <2>1. \A j \in Calls : st'[Root(j)] \notin {"none", "gone"}
    BY <1>0, <1>4, CallsTyped DEF PartInv
  <2> QED
    BY <1>0, <1>5, <1>6, <2>1 DEF PartInv
<1>r. RunInv'
  BY <1>0, <1>1, <1>2, <1>3, <1>5 DEF RunInv
<1>s. StackInv'
  <2>1. \A v \in Workers : \A c \in Items : On(v, c)' <=> On(v, c)
    BY <1>2 DEF On
  <2> QED
    BY <1>0, <1>1, <1>2, <1>4, <1>5, <2>1 DEF StackInv
<1>i. StateInv'
  BY <1>0, <1>3, <1>4 DEF StateInv
<1>k. KidInv'
  <2>1. \A c, d \in Items : IsKid(c, d) => st'[d] = "running"
    BY <1>0, <1>4, <1>6 DEF KidInv
  <2> QED
    BY <1>0, <1>5, <1>6, <2>1 DEF KidInv
<1>h. ThrownInv'
  BY <1>0, <1>1, <1>3, <1>5 DEF ThrownInv
<1>j. KeptInv'
  <2>1. \A c \in Items : Joined(c) => Joined(c)'
    BY <1>0, <1>1, <1>4, <1>6, KidIsKid DEF Joined, Kid
  <2> QED
    BY <1>0, <1>3, <1>5, <2>1 DEF KeptInv
<1> QED
  BY <1>t, <1>p, <1>r, <1>s, <1>i, <1>k, <1>h, <1>j DEF ParInv

LEMMA ReleaseInv ==
    ASSUME ParInv, NEW w \in Workers, NEW b \in Items, Release(w, b)
    PROVE  ParInv'
<1>0. Types /\ PartInv /\ RunInv /\ StackInv /\ StateInv /\ KidInv /\ ThrownInv /\ KeptInv
  BY DEF ParInv
<1>1. /\ stack[w] \in Seq(Items) /\ stack[w] # <<>> /\ Last(stack[w]) = b /\ On(w, b)
      /\ st[b] \in {"completed", "canceled"}
  BY InStack DEF Release, On
<1>2. /\ stack'[w] = Front(stack[w]) /\ \A v \in Workers : v # w => stack'[v] = stack[v]
      /\ held' = held \ {b}
      /\ UNCHANGED <<scenario, st, frame, runs>>
  BY <1>0 DEF Release, Types
<1>3. /\ stack'[w] \in Seq(Items) /\ ToSet(stack[w]) = ToSet(stack'[w]) \cup {b}
      /\ IsInjective(stack'[w]) /\ b \notin ToSet(stack'[w])
  <2>1. IsInjective(stack[w])
    BY <1>0 DEF StackInv
  <2> QED
    BY <1>1, <1>2, <2>1, FrontSet
<1>4. stack' \in [Workers -> Seq(Items)]
  BY <1>0, <1>2, <1>3 DEF Types, Release
<1>5. \A v \in Workers : \A c \in Items : On(v, c)' <=> On(v, c) /\ c # b
  <2>1. \A v \in Workers : On(v, b) => v = w
    BY <1>0, <1>1 DEF StackInv
  <2> QED
    BY <1>2, <1>3, <2>1 DEF On
<1>t. Types'
  BY <1>0, <1>2, <1>4 DEF Types
<1>p. PartInv'
  BY <1>0, <1>2 DEF PartInv, PartOf, Spawned
<1>r. RunInv'
  BY <1>0, <1>2 DEF RunInv, PartOf, Spawned
<1>s. StackInv'
  <2>1. \A v \in Workers : IsInjective(stack'[v])
    BY <1>0, <1>2, <1>3 DEF StackInv
  <2>2. \A c \in Items : Live(c)' <=> Live(c)
    BY <1>2 DEF Live
  <2> QED
    BY <1>0, <1>1, <1>2, <1>5, <2>1, <2>2 DEF StackInv
<1>i. StateInv'
  BY <1>0, <1>2 DEF StateInv
<1>k. KidInv'
  BY <1>0, <1>2 DEF KidInv, IsKid, SameCall, Live
<1>h. ThrownInv'
  BY <1>0, <1>2 DEF ThrownInv, PartOf, thrower, Spawned
<1>j. KeptInv'
  BY <1>0, <1>2 DEF KeptInv, Joined, Kid, SameCall, Live, Spawned, early
<1> QED
  BY <1>t, <1>p, <1>r, <1>s, <1>i, <1>k, <1>h, <1>j DEF ParInv

-----------------------------------------------------------------------------
(* The calls begin in one piece.                                            *)

LEMMA WholePart ==
    ASSUME kind \in Kinds, NEW k \in Calls
    PROVE  Whole(k) \in Part /\ Whole(k).first = Root(k) /\ Whole(k).last = Ranges[k][2]
<1> DEFINE n == Ranges[k][2] - Ranges[k][1] + 1
<1>1. Ranges[k][1] \in Int /\ Ranges[k][2] \in Int /\ Root(k) = Ranges[k][1] /\ n \in Nat
  BY CallsTyped
<1> DEFINE grain == CASE kind = "static" -> Grain
                      [] kind = "auto" -> auto_grain_size(n)
                      [] kind = "invoke" -> 1
<1> HIDE DEF n
<1>2. auto_grain_size(n) \in Nat
  <2>1. 8 * Hardware \in Nat \ {0}
    BY ParallelAssumption
  <2> DEFINE share == n \div (8 * Hardware)
  <2>2. share \in Nat
    BY <1>1, <2>1
  <2> HIDE DEF share
  <2>3. auto_grain_size(n) = Least(2048, Greatest(1, share))
    BY DEF auto_grain_size, share
  <2> QED
    BY <2>2, <2>3 DEF Least, Greatest
<1>3. grain \in Nat
  <2>1. kind = "static" \/ kind = "auto" \/ kind = "invoke"
    BY DEF Kinds
  <2>2. CASE kind = "static"
    BY <2>2, ParallelAssumption
  <2>3. CASE kind = "auto"
    BY <2>3, <1>2
  <2>4. CASE kind = "invoke"
    BY <2>4
  <2> QED
    BY <2>1, <2>2, <2>3, <2>4
<1> HIDE DEF grain
<1>4. Whole(k) = [first |-> Ranges[k][1], last |-> Ranges[k][2], grain |-> grain,
                  num |-> 0, thread |-> None]
  BY DEF Whole, grain, n
<1> QED
  BY <1>1, <1>3, <1>4 DEF Part

LEMMA ParInitInv == ParInit => ParInv
<1> SUFFICES ASSUME ParInit PROVE ParInv
  OBVIOUS
<1> DEFINE call(b) == CHOOSE k \in Calls : Root(k) = b
           part(b) == IF b \in Roots THEN Whole(call(b))
                      ELSE [first |-> b, last |-> b, grain |-> 1, num |-> 0, thread |-> None]
<1>1. /\ scenario \in [kind : Kinds, thrower : Nat, early : BOOLEAN]
      /\ stack = [w \in Workers |-> <<>>]
      /\ st = [b \in Items |-> IF b \in Roots THEN "queued" ELSE "none"]
      /\ held = Roots /\ Roots \subseteq Items
      /\ frame = [b \in Items |-> Frame(part(b))]
      /\ runs = [i \in Items |-> 0]
  BY ParallelAssumption, CallsTyped DEF ParInit, Kinds, Roots
<1>2. \A k \in Calls : Whole(k) \in Part /\ Whole(k).first = Root(k) /\ Whole(k).last = Ranges[k][2]
  <2> SUFFICES ASSUME NEW k \in Calls
               PROVE  Whole(k) \in Part /\ Whole(k).first = Root(k) /\ Whole(k).last = Ranges[k][2]
    OBVIOUS
  <2>1. kind \in Kinds
    BY <1>1 DEF kind
  <2> QED
    BY <2>1, WholePart
<1>3. \A k \in Calls : Root(k) \in Roots /\ call(Root(k)) = k
  <2> SUFFICES ASSUME NEW k \in Calls PROVE call(Root(k)) = k
    BY DEF Roots
  <2>1. \A j \in Calls : Root(j) = Root(k) => j = k
    BY CallsTyped
  <2> QED
    BY <2>1
<1> HIDE DEF call
<1>4. \A k \in Calls : part(Root(k)) = Whole(k)
  BY <1>3
<1>5. \A b \in Items : part(b) \in Part /\ part(b).first = b
  <2> SUFFICES ASSUME NEW b \in Items PROVE part(b) \in Part /\ part(b).first = b
    OBVIOUS
  <2>1. CASE b \in Roots
    BY <1>2, <1>4, <2>1 DEF Roots
  <2>2. CASE b \notin Roots
    BY <2>2, CallsTyped DEF Part
  <2> QED
    BY <2>1, <2>2
<1> HIDE DEF part
<1>6. \A b \in Items :
         /\ frame[b].pc = "split" /\ frame[b].kids = <<>> /\ frame[b].thrown = FALSE
         /\ frame[b].part = part(b) /\ frame[b] \in FrameType
  <2>1. <<>> \in Seq(Items) /\ <<>> \in Seq(Int)
    OBVIOUS
  <2> QED
    BY <1>1, <1>5, <2>1 DEF Frame, FrameType, Pcs
<1>7. \A b \in Items : (Spawned(b) <=> b \in Roots) /\ (Live(b) <=> b \in Roots)
  BY <1>1 DEF Spawned, Live
<1>8. ToSet(<<>>) = {} /\ IsInjective(<<>>)
  BY EmptySet
<1>t. Types
  <2>1. frame \in [Items -> FrameType]
    BY <1>1, <1>6
  <2>2. stack \in [Workers -> Seq(Items)]
    BY <1>1
  <2> QED
    BY <1>1, <2>1, <2>2 DEF Types
<1>p. PartInv
  <2>1. \A k \in Calls : st[Root(k)] \notin {"none", "gone"}
    BY <1>1, <1>3
  <2>2. \A k \in Calls : frame[Root(k)].part.last = Ranges[k][2]
    BY <1>2, <1>3, <1>4, <1>6, <1>1
  <2>3. \A b \in Items : Spawned(b) =>
           /\ frame[b].part.first = b
           /\ b <= frame[b].part.last
           /\ \A k \in Calls : b \in RangeOf(k) => frame[b].part.last <= Ranges[k][2]
    <3> SUFFICES ASSUME NEW b \in Items, b \in Roots
                 PROVE  /\ frame[b].part.first = b
                        /\ b <= frame[b].part.last
                        /\ \A k \in Calls : b \in RangeOf(k) => frame[b].part.last <= Ranges[k][2]
      BY <1>7
    <3>1. PICK k \in Calls : b = Root(k)
      BY DEF Roots
    <3>2. frame[b].part.first = b
      BY <1>5, <1>6
    <3>3. frame[b].part.last = Ranges[k][2] /\ b \in RangeOf(k) /\ b <= Ranges[k][2]
      BY <2>2, <3>1, CallsTyped
    <3>4. \A j \in Calls : b \in RangeOf(j) => j = k
      BY <3>3, CallsTyped
    <3>5. Ranges[k][2] <= Ranges[k][2]
      BY CallsTyped
    <3> QED
      BY <3>2, <3>3, <3>4, <3>5
  <2>4. \A b, c \in Items : Spawned(b) /\ Spawned(c) /\ b < c => frame[b].part.last < c
    <3> SUFFICES ASSUME NEW b \in Items, NEW c \in Items, b \in Roots, c \in Roots, b < c
                 PROVE  frame[b].part.last < c
      BY <1>7
    <3>1. PICK j \in Calls, k \in Calls : b = Root(j) /\ c = Root(k)
      BY DEF Roots
    <3>2. b \in Int /\ c \in Int /\ Ranges[j][2] \in Int /\ frame[b].part.last = Ranges[j][2]
          /\ b = Ranges[j][1] /\ c \in RangeOf(k)
      BY <2>2, <3>1, CallsTyped
    <3>3. j # k
      <4>1. j = k => b = c
        BY <3>1
      <4> QED
        BY <3>2, <4>1
    <3>4. c \notin RangeOf(j)
      BY <3>2, <3>3, CallsTyped
    <3> QED
      BY <3>2, <3>4 DEF RangeOf
  <2>5. \A i \in Items : \E b \in Items : Spawned(b) /\ i \in PartOf(b)
    <3> SUFFICES ASSUME NEW i \in Items PROVE \E b \in Items : Spawned(b) /\ i \in PartOf(b)
      OBVIOUS
    <3>1. PICK k \in Calls : i \in RangeOf(k)
      BY CallsTyped
    <3>2. Root(k) \in Items /\ Spawned(Root(k))
      BY <1>1, <1>3, <1>7
    <3>3. i \in PartOf(Root(k))
      BY <2>2, <3>1, CallsTyped DEF PartOf, RangeOf
    <3> QED
      BY <3>2, <3>3
  <2> QED
    BY <2>1, <2>3, <2>4, <2>5 DEF PartInv
<1>r. RunInv
  <2> SUFFICES ASSUME NEW b \in Items, Spawned(b) PROVE \A i \in PartOf(b) : runs[i] = 0
    BY <1>6 DEF RunInv
  <2> SUFFICES ASSUME NEW i \in PartOf(b) PROVE i \in Items
    BY <1>1
  <2>1. PICK k \in Calls : b \in RangeOf(k)
    BY CallsTyped
  <2>2. frame[b].part.last <= Ranges[k][2] /\ frame[b].part.last \in Int
    BY <1>p, <1>t, <2>1 DEF PartInv, Types, FrameType, Part
  <2>3. i \in RangeOf(k)
    BY <2>1, <2>2, CallsTyped DEF PartOf, RangeOf
  <2> QED
    BY <2>3, CallsTyped
<1>s. StackInv
  <2>1. \A w \in Workers : stack[w] = <<>>
    BY <1>1
  <2> QED
    BY <1>1, <1>7, <1>8, <2>1 DEF StackInv, On
<1>i. StateInv
  BY <1>1, <1>6 DEF StateInv
<1>k. KidInv
  BY <1>6, <1>7, <1>8 DEF KidInv, IsKid
<1>h. ThrownInv
  BY <1>6 DEF ThrownInv
<1>j. KeptInv
  BY <1>6 DEF KeptInv
<1> QED
  BY <1>t, <1>p, <1>r, <1>s, <1>i, <1>k, <1>h, <1>j DEF ParInv

-----------------------------------------------------------------------------
(* The specification.                                                       *)

ParStep ==
    \E w \in Workers, b \in Items :
       Begin(w, b) \/ Fork(w, b) \/ Work(w, b) \/ Join(w, b) \/ Destroy(w, b)
          \/ Finish(w, b) \/ Release(w, b)

LEMMA ParStepInv == ParInv /\ [ParStep]_parVars => ParInv'
<1> SUFFICES ASSUME ParInv, [ParStep]_parVars PROVE ParInv'
  OBVIOUS
<1>1. CASE ParStep
  <2>1. PICK w \in Workers, b \in Items :
           Begin(w, b) \/ Fork(w, b) \/ Work(w, b) \/ Join(w, b) \/ Destroy(w, b)
              \/ Finish(w, b) \/ Release(w, b)
    BY <1>1 DEF ParStep
  <2>2. Fork(w, b) => ParInv'
    BY StartWorkInv, SpawnInv
  <2> QED
    BY <2>1, <2>2, BeginInv, WorkInv, JoinInv, DestroyInv, FinishInv, ReleaseInv
<1>2. CASE UNCHANGED parVars
  <2>0. Types /\ PartInv /\ RunInv /\ StackInv /\ StateInv /\ KidInv /\ ThrownInv /\ KeptInv
    BY DEF ParInv
  <2>1. UNCHANGED <<scenario, stack, st, held, frame, runs>>
    BY <1>2 DEF parVars
  <2>2. Types' /\ PartInv' /\ RunInv' /\ StateInv'
    BY <2>0, <2>1 DEF Types, PartInv, RunInv, StateInv, PartOf, Spawned
  <2>3. StackInv' /\ KidInv'
    BY <2>0, <2>1 DEF StackInv, KidInv, On, IsKid, Live, SameCall
  <2>4. ThrownInv'
    BY <2>0, <2>1 DEF ThrownInv, PartOf, thrower, Spawned
  <2>5. KeptInv'
    BY <2>0, <2>1 DEF KeptInv, Joined, Kid, SameCall, Live, Spawned, early
  <2> QED
    BY <2>2, <2>3, <2>4, <2>5 DEF ParInv
<1> QED
  BY <1>1, <1>2

LEMMA CallsAreInputs == Calls = Inputs
<1>1. DOMAIN Ranges = 1 .. Len(Ranges) /\ Len(Ranges) \in Nat
  BY ParallelAssumption, LenProperties
<1>2. \A n \in Nat : Cardinality(1 .. n) = n
  BY FS_Interval
<1> QED
  BY <1>1, <1>2, ProgramAssumption DEF Calls, Inputs

\* Every step of the program is one of the calls', or one of when_all or when_any,
\* or both.
LEMMA StepsOfBoth == [Next]_vars => [ParStep]_parVars /\ [WhenNext]_whenVars
<1> SUFFICES ASSUME [Next]_vars PROVE [ParStep]_parVars /\ [WhenNext]_whenVars
  OBVIOUS
<1>0. \A k \in Calls : Root(k) \in Items
  BY CallsTyped
<1>1. ASSUME NEW w \in Workers, WorkerStep(w) PROVE [ParStep]_parVars /\ [WhenNext]_whenVars
  BY <1>1 DEF WorkerStep, ParStep
<1>2. ASSUME NEW w \in Workers, NEW k \in Calls, FinishCall(w, k)
      PROVE  [ParStep]_parVars /\ [WhenNext]_whenVars
  BY <1>0, <1>2, CallsAreInputs DEF FinishCall, ParStep, WhenNext
<1>3. ASSUME NEW w \in Workers, NEW k \in Calls, ReleaseCall(w, k)
      PROVE  [ParStep]_parVars /\ [WhenNext]_whenVars
  BY <1>0, <1>3 DEF ReleaseCall, ParStep
<1>4. ASSUME NEW k \in Calls, NEW who, ContinueBy(k, who)
      PROVE  [ParStep]_parVars /\ [WhenNext]_whenVars
  BY <1>4, CallsAreInputs DEF ContinueBy, WhenNext
<1>5. CASE Main
  BY <1>4, <1>5 DEF Main, WhenNext
<1>6. CASE \E w \in Workers : Worker(w)
  BY <1>1, <1>2, <1>3, <1>4, <1>6 DEF Worker
<1>7. CASE UNCHANGED vars
  BY <1>7 DEF vars
<1> QED
  BY <1>5, <1>6, <1>7 DEF Next

\* Each task's state, its frame, its part and its subtasks fit together, whoever
\* runs it: the invariant on which the results below rest.
THEOREM CallsConsistent == Spec => []ParInv
<1>1. Init => ParInv
  BY ParInitInv DEF Init
<1>2. ParInv /\ [Next]_vars => ParInv'
  BY StepsOfBoth, ParStepInv
<1> QED
  BY <1>1, <1>2, PTL DEF Spec

-----------------------------------------------------------------------------
(* What the invariant says of a call that has returned.                     *)

\* Nobody else is at work on it.
LEMMA CallOver ==
    ASSUME ParInv, NEW k \in Calls, st[Root(k)] \in {"completed", "canceled"}
    PROVE  \A b \in RangeOf(k) : Live(b) => b = Root(k)
<1>0. Types /\ StateInv /\ KidInv
  BY DEF ParInv
<1> DEFINE T == {b \in RangeOf(k) : Live(b) /\ b # Root(k)}
<1> SUFFICES ASSUME T # {} PROVE FALSE
  OBVIOUS
<1>1. T \in SUBSET Nat /\ \A b \in T : b \in Items
  BY CallsTyped
<1>2. PICK b \in T : \A c \in T : b <= c
  <2> HIDE DEF T
  <2> QED
    BY <1>1, LeastNat
<1>3. b \in Items /\ b \in Nat /\ b \in RangeOf(k) /\ Live(b) /\ b # Root(k)
  BY <1>1, <1>2
<1>4. b \notin Roots
  <2>1. \A j \in Calls : b = Root(j) => j = k
    BY <1>3, CallsTyped
  <2> QED
    BY <1>3, <2>1 DEF Roots
<1>5. PICK c \in Items : IsKid(b, c)
  BY <1>0, <1>3, <1>4 DEF KidInv
<1>6. c < b /\ SameCall(b, c) /\ st[c] = "running" /\ c \in Nat
  BY <1>0, <1>3, <1>5, CallsTyped DEF KidInv
<1>7. c \in RangeOf(k)
  BY <1>3, <1>6, SameCallFacts
<1>8. c \in T
  BY <1>6, <1>7 DEF Live
<1>9. b <= c
  BY <1>2, <1>8
<1> QED
  BY <1>3, <1>6, <1>9

\* The exception of one of its parts is its own.
LEMMA CompletedCall ==
    ASSUME ParInv, ~ early, NEW k \in Calls, st[Root(k)] = "completed"
    PROVE  \A b \in RangeOf(k) : Spawned(b) => frame[b].pc = "finished" /\ ~ frame[b].thrown
<1>0. Types /\ StateInv /\ KeptInv
  BY DEF ParInv
<1> SUFFICES ASSUME NEW b \in RangeOf(k), Spawned(b)
             PROVE  frame[b].pc = "finished" /\ ~ frame[b].thrown
  OBVIOUS
<1>1. b \in Items /\ Root(k) \in Items
  BY CallsTyped
<1>2. \A c \in RangeOf(k) : Live(c) => c = Root(k)
  BY CallOver
<1>3. frame[b].pc = "finished"
  <2>1. CASE Live(b)
    BY <1>0, <1>1, <1>2, <2>1 DEF StateInv
  <2>2. CASE ~ Live(b)
    <3>1. st[b] = "gone"
      BY <1>0, <1>1, <2>2 DEF Types, Live, Spawned
    <3> QED
      BY <1>0, <1>1, <3>1 DEF StateInv
  <2> QED
    BY <2>1, <2>2
<1>4. ~ frame[b].thrown
  <2> SUFFICES ASSUME frame[b].thrown PROVE FALSE
    OBVIOUS
  <2>1. PICK c \in Items : SameCall(b, c) /\ Live(c) /\ frame[c].thrown
    BY <1>0, <1>1 DEF KeptInv
  <2>2. c = Root(k)
    BY <1>1, <1>2, <2>1, SameCallFacts
  <2> QED
    BY <1>0, <1>1, <2>1, <2>2 DEF StateInv
<1> QED
  BY <1>3, <1>4

LEMMA PartWithItem ==
    ASSUME ParInv, NEW k \in Calls, NEW i \in RangeOf(k)
    PROVE  \E b \in RangeOf(k) : Spawned(b) /\ i \in PartOf(b)
<1>0. Types /\ PartInv
  BY DEF ParInv
<1>1. i \in Items /\ i \in Nat
  BY CallsTyped
<1>2. PICK b \in Items : Spawned(b) /\ i \in PartOf(b)
  BY <1>0, <1>1 DEF PartInv
<1>3. PICK j \in Calls : b \in RangeOf(j)
  BY CallsTyped
<1>4. frame[b].part.last <= Ranges[j][2] /\ frame[b].part.last \in Int
  BY <1>0, <1>2, <1>3 DEF PartInv, Types, FrameType, Part
<1>5. i \in RangeOf(j)
  BY <1>1, <1>2, <1>3, <1>4, CallsTyped DEF PartOf, RangeOf
<1>6. j = k
  BY <1>5, CallsTyped
<1> QED
  BY <1>2, <1>3, <1>6

LEMMA OnceEach == ParInv => EachItemOnce
<1> SUFFICES ASSUME ParInv PROVE EachItemOnce
  OBVIOUS
<1>0. Types /\ PartInv /\ RunInv
  BY DEF ParInv
<1>1. \A i \in Items : runs[i] <= 1
  <2>1. \A i \in Items : runs[i] = 0 \/ runs[i] = 1
    BY <1>0 DEF Types
  <2> QED
    BY <2>1
<1>2. ASSUME ~ early, NEW k \in Calls, st[Root(k)] = "completed", NEW i \in RangeOf(k)
      PROVE  runs[i] = 1
  <2>1. PICK b \in RangeOf(k) : Spawned(b) /\ i \in PartOf(b)
    BY PartWithItem
  <2>2. frame[b].pc = "finished" /\ ~ frame[b].thrown /\ b \in Items
    BY <1>2, <2>1, CompletedCall, CallsTyped
  <2> QED
    BY <1>0, <2>1, <2>2 DEF RunInv
<1> QED
  BY <1>1, <1>2 DEF EachItemOnce

LEMMA Reaches == ParInv => ExceptionReaches
<1> SUFFICES ASSUME ParInv, ~ early, NEW k \in Calls
             PROVE  /\ st[Root(k)] = "canceled" => thrower \in RangeOf(k)
                    /\ st[Root(k)] = "completed" => thrower \notin RangeOf(k)
  BY DEF ExceptionReaches
<1>0. Types /\ StateInv /\ ThrownInv
  BY DEF ParInv
<1>1. Root(k) \in Items /\ Root(k) \in RangeOf(k)
  BY CallsTyped
<1>2. st[Root(k)] = "canceled" => thrower \in RangeOf(k)
  BY <1>0, <1>1 DEF StateInv, ThrownInv, Spawned
<1>3. ASSUME st[Root(k)] = "completed", thrower \in RangeOf(k) PROVE FALSE
  <2>1. PICK b \in RangeOf(k) : Spawned(b) /\ thrower \in PartOf(b)
    BY <1>3, PartWithItem
  <2>2. frame[b].pc = "finished" /\ ~ frame[b].thrown /\ b \in Items
    BY <1>3, <2>1, CompletedCall, CallsTyped
  <2> QED
    BY <1>0, <2>1, <2>2 DEF ThrownInv
<1> QED
  BY <1>2, <1>3

LEMMA Outlive == ParInv => FramesOutlive
<1> SUFFICES ASSUME ParInv, NEW b \in Items, b \in held, b \notin Roots
             PROVE  st[b] # "gone" /\ \E c \in Items, w \in Workers :
                          b \in ToSet(frame[c].kids) /\ c \in ToSet(stack[w])
  BY DEF FramesOutlive
<1>0. Types /\ StackInv /\ KidInv
  BY DEF ParInv
<1>1. Live(b)
  BY <1>0 DEF StackInv
<1>2. PICK c \in Items : IsKid(b, c)
  BY <1>0, <1>1 DEF KidInv
<1>3. st[c] = "running"
  BY <1>0, <1>2 DEF KidInv
<1>4. c \in held
  BY <1>0, <1>3 DEF StackInv
<1>5. PICK w \in Workers : On(w, c)
  BY <1>0, <1>3, <1>4 DEF StackInv
<1> QED
  BY <1>1, <1>2, <1>5 DEF Live, IsKid, On

\* Nobody processes an item twice, and a call that returns normally has processed
\* each, however the partitioner cuts the range and whoever runs the parts.
THEOREM ItemsOnce == Spec => []EachItemOnce
BY CallsConsistent, OnceEach, PTL

\* As long as the scheduler has a reference to a subtask, the frame in which it
\* lives is on a stack.
THEOREM FramesStay == Spec => []FramesOutlive
BY CallsConsistent, Outlive, PTL

-----------------------------------------------------------------------------
(* The order of the results, without early waits: `end' is the last item of *)
(* a task's range when it was split off.                                    *)

Done == {i \in Items : runs[i] = 1}
Spawns == {b \in Items : Spawned(b)}

\* The last item a task has still to do or to join, but for the subtasks s.
Before(s, e) == IF s = <<>> THEN e ELSE Last(s) - 1

\* Each subtask's range ends where that of the one split off before begins.
Chain(end, s, e) ==
    \A n \in 1 .. Len(s) : end[s[n]] = IF n = 1 THEN e ELSE s[n - 1] - 1

Within(P, i, j) == P \cap (i .. j)

\* s is the result for the items i to j, all of them processed, by tasks in P.
Holds(s, i, j, P, D) ==
    /\ ItemsInOrder(s, i, j)
    /\ Cardinality(Starts(s)) = Cardinality(Within(P, i, j))
    /\ Within(Items, i, j) \subseteq D

TaskOrder(f, b, end, P, D) ==
    /\ b <= end[b]
    /\ Chain(end, f.kids, end[b])
    /\ f.pc \in {"split", "work"} => f.part.last = Before(f.kids, end[b])
    /\ ~ f.thrown =>
          /\ f.pc = "join" => Holds(f.out, b, Before(f.kids, end[b]), P, D)
          /\ f.pc = "destroy" => Holds(f.out, b, end[Last(f.kids)], P, D)
          /\ f.pc = "finished" => Holds(f.out, b, end[b], P, D)

Ordered(end) ==
    /\ end \in [Items -> Int]
    /\ \A k \in Calls : end[Root(k)] = Ranges[k][2]
    /\ \A b \in Items : Spawned(b) => TaskOrder(frame[b], b, end, Spawns, Done)

OrderInv == ~ early => \E end : Ordered(end)

-----------------------------------------------------------------------------
(* Results put together, and chains of subtasks.                            *)

LEMMA ConcatFacts ==
    ASSUME NEW S, NEW s \in Seq(S), NEW t \in Seq(S)
    PROVE  /\ s \o t \in Seq(S) /\ Len(s) \in Nat /\ Len(t) \in Nat
           /\ DOMAIN s = 1 .. Len(s) /\ DOMAIN t = 1 .. Len(t)
           /\ DOMAIN (s \o t) = 1 .. Len(s) + Len(t)
           /\ \A n \in 1 .. Len(s) : (s \o t)[n] = s[n]
           /\ \A n \in 1 .. Len(t) : (s \o t)[Len(s) + n] = t[n]
           /\ \A n \in 1 .. Len(s) + Len(t) : n \in 1 .. Len(s) \/ \E m \in 1 .. Len(t) : n = Len(s) + m
<1>1. /\ s \o t \in Seq(S) /\ Len(s \o t) = Len(s) + Len(t)
      /\ \A n \in 1 .. Len(s) + Len(t) : (s \o t)[n] = IF n <= Len(s) THEN s[n] ELSE t[n - Len(s)]
  BY ConcatProperties
<1>2. Len(s) \in Nat /\ Len(t) \in Nat /\ DOMAIN s = 1 .. Len(s) /\ DOMAIN t = 1 .. Len(t)
      /\ DOMAIN (s \o t) = 1 .. Len(s \o t)
  BY <1>1, LenProperties
<1>3. ASSUME NEW n \in 1 .. Len(s) PROVE (s \o t)[n] = s[n]
  BY <1>1, <1>2
<1>4. ASSUME NEW n \in 1 .. Len(t) PROVE (s \o t)[Len(s) + n] = t[n]
  <2>1. Len(s) + n \in 1 .. Len(s) + Len(t) /\ ~ (Len(s) + n <= Len(s)) /\ Len(s) + n - Len(s) = n
    BY <1>2
  <2> QED
    BY <1>1, <2>1
<1>5. ASSUME NEW n \in 1 .. Len(s) + Len(t), n \notin 1 .. Len(s)
      PROVE  \E m \in 1 .. Len(t) : n = Len(s) + m
  <2>1. n - Len(s) \in 1 .. Len(t) /\ n = Len(s) + (n - Len(s))
    BY <1>2, <1>5
  <2> QED
    BY <2>1
<1> QED
  BY <1>1, <1>2, <1>3, <1>4, <1>5

LEMMA StartsFinite ==
    ASSUME NEW S, NEW s \in Seq(S)
    PROVE  IsFiniteSet(Starts(s)) /\ Starts(s) \in SUBSET (1 .. Len(s)) /\ Cardinality(Starts(s)) \in Nat
<1>1. Len(s) \in Nat /\ DOMAIN s = 1 .. Len(s)
  BY LenProperties
<1>2. IsFiniteSet(1 .. Len(s)) /\ Starts(s) \in SUBSET (1 .. Len(s))
  BY <1>1, FS_Interval DEF Starts
<1> QED
  BY <1>2, FS_Subset, FS_CardinalityType

LEMMA StartsConcat ==
    ASSUME NEW S, NEW s \in Seq(S), NEW t \in Seq(S)
    PROVE  Cardinality(Starts(s \o t)) = Cardinality(Starts(s)) + Cardinality(Starts(t))
<1> DEFINE T == {Len(s) + n : n \in Starts(t)}
           f == [n \in Starts(t) |-> Len(s) + n]
<1>1. /\ Starts(s) \subseteq 1 .. Len(s) /\ Starts(t) \subseteq 1 .. Len(t)
      /\ IsFiniteSet(Starts(s)) /\ IsFiniteSet(Starts(t))
      /\ Len(s) \in Nat /\ Len(t) \in Nat
      /\ Cardinality(Starts(s)) \in Nat /\ Cardinality(Starts(t)) \in Nat
  BY StartsFinite, ConcatFacts
<1>2. Starts(s \o t) = Starts(s) \cup T
  <2>1. ASSUME NEW n \in Starts(s \o t) PROVE n \in Starts(s) \cup T
    <3>1. n \in 1 .. Len(s) + Len(t) /\ (s \o t)[n] = Start
      BY ConcatFacts DEF Starts
    <3>2. CASE n \in 1 .. Len(s)
      BY <3>1, <3>2, ConcatFacts DEF Starts
    <3>3. CASE \E m \in 1 .. Len(t) : n = Len(s) + m
      <4>1. PICK m \in 1 .. Len(t) : n = Len(s) + m
        BY <3>3
      <4>2. m \in Starts(t)
        BY <3>1, <4>1, ConcatFacts DEF Starts
      <4> QED
        BY <4>1, <4>2
    <3> QED
      BY <3>1, <3>2, <3>3, ConcatFacts
  <2>2. ASSUME NEW n \in Starts(s) PROVE n \in Starts(s \o t)
    <3>1. n \in 1 .. Len(s) /\ s[n] = Start /\ n \in 1 .. Len(s) + Len(t)
      BY <1>1, ConcatFacts DEF Starts
    <3> QED
      BY <3>1, ConcatFacts DEF Starts
  <2>3. ASSUME NEW n \in Starts(t) PROVE Len(s) + n \in Starts(s \o t)
    <3>1. n \in 1 .. Len(t) /\ t[n] = Start
      BY ConcatFacts DEF Starts
    <3>2. Len(s) + n \in 1 .. Len(s) + Len(t)
      BY <1>1, <3>1
    <3>3. DOMAIN (s \o t) = 1 .. Len(s) + Len(t) /\ (s \o t)[Len(s) + n] = t[n]
      BY <3>1, ConcatFacts
    <3> QED
      BY <3>1, <3>2, <3>3 DEF Starts
  <2> QED
    BY <2>1, <2>2, <2>3
<1>3. IsFiniteSet(T) /\ Cardinality(T) = Cardinality(Starts(t))
  <2>1. f \in Bijection(Starts(t), T)
    <3>1. f \in [Starts(t) -> T] /\ \A y \in T : \E n \in Starts(t) : f[n] = y
      OBVIOUS
    <3>2. \A m, n \in Starts(t) : f[m] = f[n] => m = n
      BY <1>1
    <3> QED
      BY <3>1, <3>2, Fun_IsBij
  <2> HIDE DEF f, T
  <2> QED
    BY <1>1, <2>1, FS_Bijection DEF ExistsBijection
<1>4. Starts(s) \cap T = {}
  BY <1>1
<1> HIDE DEF T
<1>5. Cardinality(Starts(s) \cup T) = Cardinality(Starts(s)) + Cardinality(T) - 0
  BY <1>1, <1>3, <1>4, FS_Union, FS_EmptySet
<1> QED
  BY <1>1, <1>2, <1>3, <1>5

LEMMA CutCounts ==
    ASSUME NEW P, NEW i \in Int, NEW m \in Int, NEW j \in Int, i <= m, m <= j
    PROVE  Cardinality(Within(P, i, j)) =
              Cardinality(Within(P, i, m)) + Cardinality(Within(P, m + 1, j))
<1> DEFINE L == P \cap (i .. m)
           R == P \cap (m + 1 .. j)
<1>1. IsFiniteSet(i .. m) /\ IsFiniteSet(m + 1 .. j)
  BY FS_Interval
<1>2. IsFiniteSet(L) /\ IsFiniteSet(R) /\ Cardinality(L) \in Nat /\ Cardinality(R) \in Nat
  BY <1>1, FS_Subset, FS_CardinalityType
<1>3. L \cup R = P \cap (i .. j) /\ L \cap R = {}
  OBVIOUS
<1> HIDE DEF L, R, Within
<1>4. Cardinality(L \cup R) = Cardinality(L) + Cardinality(R) - 0
  BY <1>2, <1>3, FS_Union, FS_EmptySet
<1> QED
  BY <1>2, <1>3, <1>4 DEF L, R, Within

LEMMA ConcatInOrder ==
    ASSUME NEW s \in Seq(Int), NEW t \in Seq(Int), NEW i \in Int, NEW m \in Int, NEW j \in Int,
           i <= m, m <= j, ItemsInOrder(s, i, m), ItemsInOrder(t, m + 1, j)
    PROVE  ItemsInOrder(s \o t, i, j)
<1> DEFINE u == s \o t
           Nonstarts(v) == DOMAIN v \ Starts(v)
<1>0. /\ Len(s) \in Nat /\ Len(t) \in Nat
      /\ DOMAIN s = 1 .. Len(s) /\ DOMAIN t = 1 .. Len(t) /\ DOMAIN u = 1 .. Len(s) + Len(t)
      /\ \A n \in 1 .. Len(s) : u[n] = s[n] /\ n \in 1 .. Len(s) + Len(t)
      /\ \A n \in 1 .. Len(t) : u[Len(s) + n] = t[n] /\ Len(s) + n \in 1 .. Len(s) + Len(t)
      /\ \A n \in 1 .. Len(s) + Len(t) : n \in 1 .. Len(s) \/ \E l \in 1 .. Len(t) : n = Len(s) + l
  <2>1. Len(s) \in Nat /\ Len(t) \in Nat
    BY ConcatFacts
  <2>2. /\ \A n \in 1 .. Len(s) : n \in 1 .. Len(s) + Len(t)
        /\ \A n \in 1 .. Len(t) : Len(s) + n \in 1 .. Len(s) + Len(t)
    BY <2>1
  <2> QED
    BY <2>2, ConcatFacts
<1> HIDE DEF u
<1>1. /\ \A n \in Nonstarts(s) : n \in Nonstarts(u) /\ u[n] = s[n]
      /\ \A n \in Nonstarts(t) : Len(s) + n \in Nonstarts(u) /\ u[Len(s) + n] = t[n]
      /\ \A n \in Nonstarts(u) : n \in Nonstarts(s) \/ \E l \in Nonstarts(t) : n = Len(s) + l
  BY <1>0 DEF Starts
<1>2. /\ \A n \in Nonstarts(s) : s[n] \in i .. m
      /\ \A n \in Nonstarts(t) : t[n] \in m + 1 .. j
      /\ \A x \in i .. m : \E n \in Nonstarts(s) : s[n] = x
      /\ \A x \in m + 1 .. j : \E n \in Nonstarts(t) : t[n] = x
  BY DEF ItemsInOrder
<1>3. {u[n] : n \in Nonstarts(u)} = i .. j
  <2>1. ASSUME NEW n \in Nonstarts(u) PROVE u[n] \in i .. j
    <3> HIDE DEF Nonstarts
    <3>1. u[n] \in i .. m \/ u[n] \in m + 1 .. j
      <4>1. CASE n \in Nonstarts(s)
        BY <1>1, <1>2, <4>1
      <4>2. CASE \E l \in Nonstarts(t) : n = Len(s) + l
        BY <1>1, <1>2, <4>2
      <4> QED
        BY <1>1, <4>1, <4>2
    <3> QED
      BY <3>1
  <2>2. ASSUME NEW x \in i .. j PROVE \E n \in Nonstarts(u) : u[n] = x
    <3> HIDE DEF Nonstarts
    <3>1. x \in i .. m \/ x \in m + 1 .. j
      OBVIOUS
    <3>2. CASE x \in i .. m
      BY <1>1, <1>2, <3>2
    <3>3. CASE x \in m + 1 .. j
      <4>1. PICK n \in Nonstarts(t) : t[n] = x
        BY <1>2, <3>3
      <4> QED
        BY <1>1, <4>1
    <3> QED
      BY <3>1, <3>2, <3>3
  <2> QED
    BY <2>1, <2>2
<1>4. ASSUME NEW k \in Nonstarts(u), NEW n \in Nonstarts(u), k < n PROVE u[k] < u[n]
  <2>0. k \in Int /\ n \in Int
    BY <1>0
  <2>1. CASE k \in Nonstarts(s) /\ n \in Nonstarts(s)
    BY <1>1, <1>4, <2>1 DEF ItemsInOrder
  <2>2. CASE k \in Nonstarts(s) /\ n \notin Nonstarts(s)
    <3>1. PICK l \in Nonstarts(t) : n = Len(s) + l
      BY <1>1, <2>2
    <3>2. u[k] \in i .. m /\ u[n] \in m + 1 .. j
      BY <1>1, <1>2, <2>2, <3>1
    <3> QED
      BY <3>2
  <2>3. CASE k \notin Nonstarts(s)
    <3>1. PICK h \in Nonstarts(t) : k = Len(s) + h
      BY <1>1, <2>3
    <3>2. h \in 1 .. Len(t) /\ n \notin 1 .. Len(s)
      BY <1>0, <1>4, <2>0, <3>1
    <3>3. PICK l \in Nonstarts(t) : n = Len(s) + l
      BY <1>0, <1>1, <3>2
    <3>4. h < l
      BY <1>0, <1>4, <3>1, <3>3
    <3>5. t[h] < t[l]
      BY <3>4 DEF ItemsInOrder
    <3> QED
      BY <1>1, <3>1, <3>3, <3>5
  <2> QED
    BY <2>1, <2>2, <2>3
<1> QED
  BY <1>3, <1>4 DEF ItemsInOrder, u

\* A subtask's result is joined to its parent's, which ends where it begins.
LEMMA HoldsConcat ==
    ASSUME NEW P, NEW D, NEW s \in Seq(Int), NEW t \in Seq(Int),
           NEW i \in Int, NEW m \in Int, NEW j \in Int, i <= m, m <= j,
           Holds(s, i, m, P, D), Holds(t, m + 1, j, P, D)
    PROVE  Holds(s \o t, i, j, P, D)
<1>1. ItemsInOrder(s \o t, i, j)
  BY ConcatInOrder DEF Holds
<1>2. Cardinality(Starts(s \o t)) = Cardinality(Within(P, i, j))
  <2>1. Cardinality(Starts(s \o t)) = Cardinality(Starts(s)) + Cardinality(Starts(t))
    BY StartsConcat
  <2>2. Cardinality(Within(P, i, j)) =
           Cardinality(Within(P, i, m)) + Cardinality(Within(P, m + 1, j))
    BY CutCounts
  <2> QED
    BY <2>1, <2>2 DEF Holds
<1>3. Within(Items, i, j) \subseteq D
  <2>1. i .. j = (i .. m) \cup (m + 1 .. j)
    OBVIOUS
  <2> QED
    BY <2>1 DEF Holds, Within
<1> QED
  BY <1>1, <1>2, <1>3 DEF Holds

\* New tasks, which have processed nothing yet, are outside of finished ranges.
LEMMA HoldsKept ==
    ASSUME NEW P, NEW D, NEW Q, NEW E, P \subseteq Q, Q \subseteq Items, D \subseteq E,
           (Q \ P) \cap D = {}, NEW s, NEW i, NEW j, Holds(s, i, j, P, D)
    PROVE  Holds(s, i, j, Q, E)
<1>1. Within(Q, i, j) = Within(P, i, j)
  BY DEF Holds, Within
<1> QED
  BY <1>1 DEF Holds

LEMMA TaskOrderKept ==
    ASSUME NEW P, NEW D, NEW Q, NEW E, P \subseteq Q, Q \subseteq Items, D \subseteq E,
           (Q \ P) \cap D = {}, NEW f, NEW b, NEW end, TaskOrder(f, b, end, P, D)
    PROVE  TaskOrder(f, b, end, Q, E)
<1>1. /\ b <= end[b] /\ Chain(end, f.kids, end[b])
      /\ f.pc \in {"split", "work"} => f.part.last = Before(f.kids, end[b])
  BY DEF TaskOrder
<1>2. ~ f.thrown =>
          /\ f.pc = "join" => Holds(f.out, b, Before(f.kids, end[b]), Q, E)
          /\ f.pc = "destroy" => Holds(f.out, b, end[Last(f.kids)], Q, E)
          /\ f.pc = "finished" => Holds(f.out, b, end[b], Q, E)
  BY HoldsKept DEF TaskOrder
<1> QED
  BY <1>1, <1>2 DEF TaskOrder

LEMMA ChainAppend ==
    ASSUME NEW s \in Seq(Items), NEW c \in Items, NEW e \in Int, NEW end, NEW new,
           Chain(end, s, e), \A x \in ToSet(s) : new[x] = end[x], new[c] = Before(s, e)
    PROVE  Chain(new, Append(s, c), e) /\ Before(Append(s, c), e) = c - 1
<1> DEFINE t == Append(s, c)
<1>1. /\ Len(t) = Len(s) + 1 /\ Len(s) \in Nat /\ DOMAIN s = 1 .. Len(s)
      /\ \A n \in 1 .. Len(s) : t[n] = s[n] /\ s[n] \in ToSet(s)
      /\ t[Len(s) + 1] = c /\ t # <<>>
  BY AppendProperties, LenProperties DEF ToSet
<1> HIDE DEF t
<1>2. ASSUME NEW n \in 1 .. Len(t)
      PROVE  new[t[n]] = IF n = 1 THEN e ELSE t[n - 1] - 1
  <2>1. CASE n \in 1 .. Len(s)
    <3>1. new[t[n]] = end[s[n]] /\ end[s[n]] = IF n = 1 THEN e ELSE s[n - 1] - 1
      BY <1>1, <2>1 DEF Chain
    <3>2. n # 1 => n - 1 \in 1 .. Len(s)
      BY <1>1, <2>1
    <3> QED
      BY <1>1, <3>1, <3>2
  <2>2. CASE n = Len(s) + 1
    <3>1. new[t[n]] = Before(s, e)
      BY <1>1, <2>2
    <3>2. CASE s = <<>>
      BY <2>2, <3>1, <3>2 DEF Before
    <3>3. CASE s # <<>>
      <4>1. Len(s) # 0 /\ n # 1 /\ n - 1 = Len(s) /\ Len(s) \in 1 .. Len(s)
        BY <1>1, <2>2, <3>3, EmptySeq
      <4> QED
        BY <1>1, <3>1, <3>3, <4>1 DEF Before, Last
    <3> QED
      BY <3>2, <3>3
  <2> QED
    BY <1>1, <2>1, <2>2
<1>3. Before(t, e) = c - 1
  BY <1>1 DEF Before, Last
<1> QED
  BY <1>2, <1>3 DEF Chain, t

LEMMA ChainFront ==
    ASSUME NEW s \in Seq(Items), s # <<>>, NEW e, NEW end, Chain(end, s, e)
    PROVE  Chain(end, Front(s), e) /\ Before(Front(s), e) = end[Last(s)]
<1> DEFINE t == Front(s)
<1>1. /\ Len(s) \in Nat \ {0} /\ t \in Seq(Items) /\ Len(t) = Len(s) - 1
      /\ \A n \in 1 .. Len(s) - 1 : t[n] = s[n]
  <2>1. /\ Len(s) \in Nat \ {0} /\ DOMAIN s = 1 .. Len(s)
        /\ \A i \in 1 .. Len(s) : s[i] \in Items
    BY EmptySeq, LenProperties, ElementOfSeq
  <2>2. Front(s) \in Seq(Items) /\ Len(Front(s)) = Len(s) - 1
        /\ \A n \in 1 .. Len(s) - 1 : Front(s)[n] = s[n]
    BY <2>1, SubSeqProperties DEF Front
  <2> QED
    BY <2>1, <2>2
<1> HIDE DEF t
<1>2. ASSUME NEW n \in 1 .. Len(t)
      PROVE  end[t[n]] = IF n = 1 THEN e ELSE t[n - 1] - 1
  <2>1. n \in 1 .. Len(s) - 1 /\ n \in 1 .. Len(s) /\ (n # 1 => n - 1 \in 1 .. Len(s) - 1)
    BY <1>1
  <2> QED
    BY <1>1, <2>1 DEF Chain
<1>3. Before(t, e) = end[s[Len(s)]]
  <2>1. Len(s) \in 1 .. Len(s) /\ end[s[Len(s)]] = IF Len(s) = 1 THEN e ELSE s[Len(s) - 1] - 1
    BY <1>1 DEF Chain
  <2>2. CASE Len(s) = 1
    <3>1. t = <<>>
      BY <1>1, <2>2, EmptySeq
    <3> QED
      BY <2>1, <2>2, <3>1 DEF Before
  <2>3. CASE Len(s) # 1
    <3>1. Len(t) = Len(s) - 1 /\ Len(t) # 0 /\ Len(s) - 1 \in 1 .. Len(s) - 1
      BY <1>1, <2>3
    <3>2. t # <<>>
      BY <1>1, <3>1, EmptySeq
    <3> QED
      BY <1>1, <2>1, <2>3, <3>1, <3>2 DEF Before, Last
  <2> QED
    BY <2>2, <2>3
<1> QED
  BY <1>2, <1>3 DEF Chain, Last, t

-----------------------------------------------------------------------------
(* Each step keeps the order.                                               *)

\* Only task b moves, and finished ranges stay as they are.
LEMMA MoveOrdered ==
    ASSUME NEW end, Ordered(end), NEW b \in Items, Spawns' = Spawns, Done \subseteq Done',
           \A c \in Items : c # b => frame'[c] = frame[c],
           Spawned(b), TaskOrder(frame'[b], b, end, Spawns', Done')
    PROVE  Ordered(end)'
<1>1. ASSUME NEW c \in Items, Spawned(c)'
      PROVE  TaskOrder(frame'[c], c, end, Spawns', Done')
  <2>1. CASE c = b
    BY <2>1
  <2>2. CASE c # b
    <3>1. Spawned(c) /\ frame'[c] = frame[c]
      BY <1>1, <2>2 DEF Spawns
    <3>2. TaskOrder(frame[c], c, end, Spawns, Done)
      BY <3>1 DEF Ordered
    <3>3. Spawns \subseteq Spawns' /\ Spawns' \subseteq Items /\ (Spawns' \ Spawns) \cap Done = {}
      BY DEF Spawns
    <3> QED
      BY <3>1, <3>2, <3>3, TaskOrderKept
  <2> QED
    BY <2>1, <2>2
<1> QED
  BY <1>1 DEF Ordered

LEMMA StandOrdered ==
    ASSUME NEW end, Ordered(end), frame' = frame, runs' = runs,
           \A c \in Items : Spawned(c)' <=> Spawned(c)
    PROVE  Ordered(end)'
<1>1. Spawns' = Spawns /\ Done' = Done
  BY DEF Spawns, Done
<1> QED
  BY <1>1 DEF Ordered

LEMMA StartWorkOrdered ==
    ASSUME ParInv, NEW w \in Workers, NEW b \in Items, Fork(w, b),
           Length(Split(frame[b].part, w).rest) = 0, NEW end, Ordered(end)
    PROVE  Ordered(end)'
<1> DEFINE parts == Split(frame[b].part, w)
           own == parts.own
<1>0. Types /\ PartInv /\ StateInv
  BY DEF ParInv
<1>1. Spawned(b) /\ frame[b].pc = "split" /\ frame[b] \in FrameType
  BY InStack DEF Fork
<1>2. /\ frame[b].part \in Part /\ frame[b].part.first = b /\ b <= frame[b].part.last
      /\ frame[b].part.last \in Int
  BY <1>0, <1>1 DEF PartInv, FrameType, Part
<1>3. PICK at \in b + 1 .. frame[b].part.last + 1 : IsCut(frame[b].part, at, parts)
  BY <1>0, <1>2, SplitCuts
<1>4. own.last = frame[b].part.last
  BY <1>2, <1>3 DEF IsCut, Length
<1> HIDE DEF own, parts
<1>5. /\ frame' = [frame EXCEPT ![b] = [frame[b] EXCEPT !.pc = "work", !.part = own]]
      /\ UNCHANGED <<st, runs>>
  BY DEF Fork, own, parts
<1>6. /\ frame'[b].pc = "work" /\ frame'[b].part = own /\ frame'[b].kids = frame[b].kids
      /\ \A c \in Items : c # b => frame'[c] = frame[c]
  BY <1>0, <1>1, <1>5 DEF Types, FrameType
<1>7. Spawns' = Spawns /\ Done' = Done
  BY <1>5 DEF Spawns, Spawned, Done
<1>8. TaskOrder(frame[b], b, end, Spawns, Done)
  BY <1>1 DEF Ordered
<1>9. TaskOrder(frame'[b], b, end, Spawns', Done')
  BY <1>1, <1>4, <1>6, <1>8 DEF TaskOrder
<1> QED
  BY <1>1, <1>6, <1>7, <1>9, MoveOrdered

\* The initial value, and the items of a part that has been worked on.
LEMMA PartResult ==
    ASSUME NEW b \in Nat \ {0}, NEW last \in Int, b <= last
    PROVE  LET out == <<Start>> \o UpTo(b, last)
           IN  out \in Seq(Int) /\ Starts(out) = {1} /\ ItemsInOrder(out, b, last)
<1> DEFINE n == last - b + 1
           out == <<Start>> \o UpTo(b, last)
<1>1. n \in Nat /\ UpTo(b, last) = [k \in 1 .. n |-> b + k - 1]
  BY DEF UpTo
<1>2. UpTo(b, last) \in Seq(Int) /\ Len(UpTo(b, last)) = n
  <2> HIDE DEF n
  <2>1. \A k \in 1 .. n : b + k - 1 \in Int
    BY <1>1
  <2>2. UpTo(b, last) \in Seq(Int)
    BY <1>1, <2>1, IsASeq
  <2> QED
    BY <1>1, <2>2, LenProperties
<1>3. <<Start>> \in Seq(Int) /\ Len(<<Start>>) = 1 /\ <<Start>>[1] = 0
  BY DEF Start
<1> HIDE DEF n, out
<1>4. /\ out \in Seq(Int) /\ Len(out) = 1 + n
      /\ \A k \in 1 .. 1 + n : out[k] = IF k <= 1 THEN <<Start>>[k] ELSE UpTo(b, last)[k - 1]
  <2>1. PICK s \in Seq(Int), t \in Seq(Int) : s = <<Start>> /\ t = UpTo(b, last)
    BY <1>2, <1>3
  <2>2. out = s \o t /\ Len(s) = 1 /\ Len(t) = n
    BY <1>2, <1>3, <2>1 DEF out
  <2>3. /\ s \o t \in Seq(Int) /\ Len(s \o t) = Len(s) + Len(t)
        /\ \A k \in 1 .. Len(s) + Len(t) : (s \o t)[k] = IF k <= Len(s) THEN s[k] ELSE t[k - Len(s)]
    BY ConcatProperties
  <2> QED
    BY <2>1, <2>2, <2>3
<1>5. DOMAIN out = 1 .. 1 + n /\ 1 \in 1 .. 1 + n
  BY <1>1, <1>4, LenProperties
<1>6. out[1] = 0 /\ \A k \in 2 .. 1 + n : out[k] = b + k - 2
  <2>1. out[1] = 0
    BY <1>3, <1>4, <1>5
  <2>2. ASSUME NEW k \in 2 .. 1 + n PROVE out[k] = b + k - 2
    <3>1. k \in 1 .. 1 + n /\ ~ (k <= 1) /\ k - 1 \in 1 .. n
      BY <1>1
    <3>2. out[k] = b + (k - 1) - 1
      BY <1>1, <1>4, <3>1
    <3> QED
      BY <1>1, <3>2
  <2> QED
    BY <2>1, <2>2
<1>7. Starts(out) = {1}
  <2>1. ASSUME NEW k \in 1 .. 1 + n, k # 1 PROVE out[k] # 0
    <3>1. k \in 2 .. 1 + n
      BY <1>1, <2>1
    <3>2. out[k] = b + k - 2
      BY <1>6, <3>1
    <3> QED
      BY <3>1, <3>2
  <2> QED
    BY <1>5, <1>6, <2>1 DEF Starts, Start
<1>8. DOMAIN out \ Starts(out) = 2 .. 1 + n
  BY <1>1, <1>5, <1>7
<1>9. {out[k] : k \in 2 .. 1 + n} = b .. last
  <2>1. ASSUME NEW k \in 2 .. 1 + n PROVE out[k] \in b .. last
    <3>1. out[k] = b + k - 2
      BY <1>6
    <3> QED
      BY <3>1 DEF n
  <2>2. ASSUME NEW x \in b .. last PROVE \E k \in 2 .. 1 + n : out[k] = x
    <3>1. x - b + 2 \in 2 .. 1 + n
      BY DEF n
    <3>2. out[x - b + 2] = b + (x - b + 2) - 2
      BY <1>6, <3>1
    <3> QED
      BY <3>1, <3>2
  <2> QED
    BY <2>1, <2>2
<1>10. ASSUME NEW j \in 2 .. 1 + n, NEW k \in 2 .. 1 + n, j < k PROVE out[j] < out[k]
  <2>1. out[j] = b + j - 2 /\ out[k] = b + k - 2
    BY <1>6
  <2> QED
    BY <1>10, <2>1
<1> QED
  BY <1>4, <1>7, <1>8, <1>9, <1>10 DEF ItemsInOrder, out

LEMMA WorkOrdered ==
    ASSUME ParInv, NEW w \in Workers, NEW b \in Items, Work(w, b), NEW end, Ordered(end)
    PROVE  Ordered(end)'
<1> DEFINE part == frame[b].part
           throws == thrower \in part.first .. part.last
           out == <<Start>> \o UpTo(b, part.last)
<1>0. Types /\ PartInv /\ RunInv /\ StateInv /\ RunInv'
  BY WorkInv DEF ParInv
<1>1. Spawned(b) /\ frame[b].pc = "work" /\ frame[b] \in FrameType /\ ~ frame[b].thrown
  BY <1>0, InStack DEF Work, StateInv
<1>2. part.first = b /\ b <= part.last /\ part.last \in Int /\ b \in Nat \ {0} /\ part \in Part
  BY <1>0, <1>1, CallsTyped DEF PartInv, FrameType, Part
<1>3. Starts(out) = {1} /\ ItemsInOrder(out, b, part.last)
  BY <1>2, PartResult
<1>4. /\ \/ throws /\ frame' = [frame EXCEPT ![b] = [frame[b] EXCEPT !.pc = "destroy", !.thrown = TRUE]]
         \/ ~ throws /\ frame' = [frame EXCEPT ![b] = [frame[b] EXCEPT !.pc = "join", !.out = out]]
      /\ UNCHANGED st
  <2>1. throws <=> thrower \in part.first .. (IF throws THEN thrower ELSE part.last)
    <3>1. thrower \in Int
      BY <1>0 DEF Types, thrower
    <3> QED
      BY <1>2, <3>1
  <2> QED
    BY <1>2, <2>1 DEF Work
<1>5. \A i \in Items : runs[i] = 1 => runs'[i] = 1
  <2> SUFFICES ASSUME NEW i \in Items, runs[i] = 1 PROVE runs'[i] = 1
    OBVIOUS
  <2>1. runs'[i] \in {0, 1}
    BY WorkInv DEF ParInv, Types
  <2>2. runs'[i] = runs[i] + 1 \/ runs'[i] = runs[i]
    BY DEF Work
  <2> QED
    BY <2>1, <2>2
<1> HIDE DEF out, throws
<1>6. \A c \in Items : c # b => frame'[c] = frame[c]
  BY <1>0, <1>4 DEF Types
<1>7. Spawns' = Spawns /\ Done \subseteq Done'
  BY <1>4, <1>5 DEF Spawns, Spawned, Done
<1>8. b <= end[b] /\ Chain(end, frame[b].kids, end[b]) /\ part.last = Before(frame[b].kids, end[b])
  BY <1>1 DEF Ordered, TaskOrder
<1>9. CASE throws
  <2>1. frame'[b] = [frame[b] EXCEPT !.pc = "destroy", !.thrown = TRUE]
    BY <1>0, <1>4, <1>9 DEF Types
  <2>2. frame'[b].kids = frame[b].kids /\ frame'[b].pc = "destroy" /\ frame'[b].thrown
    BY <1>1, <2>1 DEF FrameType
  <2>3. TaskOrder(frame'[b], b, end, Spawns', Done')
    BY <1>8, <2>2 DEF TaskOrder
  <2> QED
    BY <1>1, <1>6, <1>7, <2>3, MoveOrdered
<1>10. CASE ~ throws
  <2>1. frame'[b] = [frame[b] EXCEPT !.pc = "join", !.out = out]
    BY <1>0, <1>4, <1>10 DEF Types
  <2>2. /\ frame'[b].kids = frame[b].kids /\ frame'[b].pc = "join" /\ ~ frame'[b].thrown
        /\ frame'[b].out = out /\ frame'[b].part = part
    BY <1>1, <2>1 DEF FrameType
  <2>3. Within(Spawns', b, part.last) = {b}
    <3>1. ASSUME NEW c \in Items, Spawned(c), c \in b .. part.last, c # b PROVE FALSE
      <4>1. b < c
        BY <1>2, <3>1
      <4>2. part.last < c
        BY <1>0, <1>1, <3>1, <4>1 DEF PartInv
      <4> QED
        BY <1>2, <3>1, <4>2
    <3>2. b \in Spawns /\ b \in b .. part.last
      BY <1>1, <1>2 DEF Spawns
    <3> QED
      BY <1>7, <3>1, <3>2 DEF Spawns, Within
  <2>4. Within(Items, b, part.last) \subseteq Done'
    <3>1. \A i \in b .. part.last : runs'[i] = 1
      <4>1. Spawned(b)'
        BY <1>1, <1>4 DEF Spawned
      <4>2. PartOf(b)' = b .. part.last
        BY <2>2 DEF PartOf
      <4> QED
        BY <1>0, <2>2, <4>1, <4>2 DEF RunInv
    <3> QED
      BY <3>1 DEF Within, Done
  <2>5. Holds(out, b, part.last, Spawns', Done')
    BY <1>3, <2>3, <2>4, FS_Singleton DEF Holds
  <2>6. TaskOrder(frame'[b], b, end, Spawns', Done')
    BY <1>8, <2>2, <2>5 DEF TaskOrder
  <2> QED
    BY <1>1, <1>6, <1>7, <2>6, MoveOrdered
<1> QED
  BY <1>9, <1>10

LEMMA JoinOrdered ==
    ASSUME ParInv, ~ early, NEW w \in Workers, NEW b \in Items, Join(w, b), NEW end, Ordered(end)
    PROVE  Ordered(end)'
<1> DEFINE kid == Kid(b)
<1>0. Types /\ StateInv /\ KidInv
  BY DEF ParInv
<1>1. /\ Spawned(b) /\ frame[b].pc = "join" /\ frame[b] \in FrameType
      /\ frame[b].kids # <<>> /\ kid \in Items /\ IsKid(kid, b)
  BY <1>0, InStack, KidIsKid DEF Join
<1>2. Live(kid) /\ b < kid /\ Spawned(kid) /\ frame[kid] \in FrameType /\ kid \in Int /\ b \in Int
  BY <1>0, <1>1, CallsTyped DEF KidInv, Live, Spawned, Types
<1>3. /\ \/ /\ st[kid] = "canceled"
            /\ frame' = [frame EXCEPT ![b] = [frame[b] EXCEPT !.pc = "destroy", !.thrown = TRUE]]
         \/ /\ st[kid] = "completed"
            /\ frame' = [frame EXCEPT ![b] = [frame[b] EXCEPT !.pc = "destroy",
                                                              !.out = frame[b].out \o frame[kid].out]]
      /\ UNCHANGED <<st, runs>>
  BY DEF Join
<1>4. TaskOrder(frame[b], b, end, Spawns, Done) /\ TaskOrder(frame[kid], kid, end, Spawns, Done)
  BY <1>1, <1>2 DEF Ordered
<1>5. Spawns' = Spawns /\ Done' = Done
  BY <1>3 DEF Spawns, Spawned, Done
<1>6. kid = Last(frame[b].kids) /\ Before(frame[b].kids, end[b]) = kid - 1
  BY <1>1 DEF Kid, Before
<1> HIDE DEF kid
<1>7. \A c \in Items : c # b => frame'[c] = frame[c]
  BY <1>0, <1>3 DEF Types
<1>8. CASE st[kid] = "canceled"
  <2>1. frame'[b] = [frame[b] EXCEPT !.pc = "destroy", !.thrown = TRUE]
    BY <1>0, <1>3, <1>8 DEF Types
  <2>2. frame'[b].kids = frame[b].kids /\ frame'[b].pc = "destroy" /\ frame'[b].thrown
    BY <1>1, <2>1 DEF FrameType
  <2>3. TaskOrder(frame'[b], b, end, Spawns', Done')
    BY <1>4, <2>2 DEF TaskOrder
  <2> QED
    BY <1>1, <1>5, <1>7, <2>3, MoveOrdered
<1>9. CASE st[kid] = "completed"
  <2>1. frame'[b] = [frame[b] EXCEPT !.pc = "destroy", !.out = frame[b].out \o frame[kid].out]
    BY <1>0, <1>3, <1>9 DEF Types
  <2>2. /\ frame'[b].kids = frame[b].kids /\ frame'[b].pc = "destroy"
        /\ (frame'[b].thrown <=> frame[b].thrown)
        /\ frame'[b].out = frame[b].out \o frame[kid].out
    BY <1>1, <2>1 DEF FrameType
  <2>3. kid <= end[kid] /\ end[kid] \in Int /\ Holds(frame[kid].out, kid, end[kid], Spawns, Done)
    <3>1. frame[kid].pc = "finished" /\ ~ frame[kid].thrown
      BY <1>0, <1>2, <1>1, <1>9 DEF StateInv
    <3>2. end[kid] \in Int
      BY <1>1 DEF Ordered
    <3> QED
      BY <1>4, <3>1, <3>2 DEF TaskOrder
  <2>4. ~ frame[b].thrown =>
           Holds(frame[b].out \o frame[kid].out, b, end[kid], Spawns, Done)
    <3> SUFFICES ASSUME ~ frame[b].thrown
                 PROVE  Holds(frame[b].out \o frame[kid].out, b, end[kid], Spawns, Done)
      OBVIOUS
    <3>1. Holds(frame[b].out, b, kid - 1, Spawns, Done)
      BY <1>1, <1>4, <1>6 DEF TaskOrder
    <3>2. kid - 1 \in Int /\ b <= kid - 1 /\ kid - 1 <= end[kid] /\ (kid - 1) + 1 = kid
      BY <1>2, <2>3
    <3>3. frame[b].out \in Seq(Int) /\ frame[kid].out \in Seq(Int)
      BY <1>1, <1>2 DEF FrameType
    <3>4. Holds(frame[kid].out, (kid - 1) + 1, end[kid], Spawns, Done)
      BY <2>3, <3>2
    <3> QED
      BY <1>2, <2>3, <3>1, <3>2, <3>3, <3>4, HoldsConcat
  <2>5. TaskOrder(frame'[b], b, end, Spawns', Done')
    BY <1>4, <1>5, <1>6, <2>2, <2>4 DEF TaskOrder
  <2> QED
    BY <1>1, <1>5, <1>7, <2>5, MoveOrdered
<1> QED
  BY <1>3, <1>8, <1>9

LEMMA DestroyOrdered ==
    ASSUME ParInv, NEW w \in Workers, NEW b \in Items, Destroy(w, b), NEW end, Ordered(end)
    PROVE  Ordered(end)'
<1> DEFINE kid == Kid(b)
           pc == IF frame[b].thrown THEN "destroy" ELSE "join"
<1>0. Types
  BY DEF ParInv
<1>1. /\ Spawned(b) /\ frame[b].pc = "destroy" /\ frame[b] \in FrameType
      /\ frame[b].kids # <<>> /\ kid \in Items /\ IsKid(kid, b) /\ frame[b].kids \in Seq(Items)
  BY <1>0, InStack, KidIsKid DEF Destroy, FrameType
<1>2. Spawned(kid)
  BY <1>1 DEF ParInv, KidInv, Live, Spawned
<1>3. /\ frame' = [frame EXCEPT ![b] = [frame[b] EXCEPT !.kids = Front(frame[b].kids), !.pc = pc]]
      /\ st' = [st EXCEPT ![kid] = "gone"] /\ UNCHANGED runs
  BY DEF Destroy
<1> HIDE DEF kid
<1>4. \A c \in Items : (Spawned(c)' <=> Spawned(c)) /\ (c # b => frame'[c] = frame[c])
  BY <1>0, <1>2, <1>3 DEF Types, Spawned
<1>5. Spawns' = Spawns /\ Done' = Done
  BY <1>3, <1>4 DEF Spawns, Done
<1>6. frame'[b].kids = Front(frame[b].kids) /\ frame'[b].pc = pc
      /\ frame'[b].thrown = frame[b].thrown /\ frame'[b].out = frame[b].out
  BY <1>0, <1>1, <1>3 DEF Types, FrameType
<1>7. TaskOrder(frame[b], b, end, Spawns, Done)
  BY <1>1 DEF Ordered
<1>8. /\ Chain(end, Front(frame[b].kids), end[b])
      /\ Before(Front(frame[b].kids), end[b]) = end[Last(frame[b].kids)]
  BY <1>1, <1>7, ChainFront DEF TaskOrder
<1>9. TaskOrder(frame'[b], b, end, Spawns', Done')
  BY <1>1, <1>5, <1>6, <1>7, <1>8 DEF TaskOrder
<1> QED
  BY <1>1, <1>4, <1>5, <1>9, MoveOrdered

\* A task that has not thrown returns after its last join.
LEMMA FinishOrdered ==
    ASSUME ParInv, ~ early, NEW w \in Workers, NEW b \in Items, Finish(w, b), NEW end, Ordered(end)
    PROVE  Ordered(end)'
<1>0. Types /\ KeptInv
  BY DEF ParInv
<1>1. /\ Spawned(b) /\ frame[b].pc \in {"join", "destroy"} /\ frame[b] \in FrameType
      /\ frame[b].kids = <<>>
  BY InStack DEF Finish
<1>2. /\ frame' = [frame EXCEPT ![b] = [frame[b] EXCEPT !.pc = "finished"]]
      /\ st' = [st EXCEPT ![b] = IF frame[b].thrown THEN "canceled" ELSE "completed"]
      /\ UNCHANGED runs
  BY DEF Finish
<1>3. \A c \in Items : (Spawned(c)' <=> Spawned(c)) /\ (c # b => frame'[c] = frame[c])
  BY <1>0, <1>1, <1>2 DEF Types, Spawned
<1>4. Spawns' = Spawns /\ Done' = Done
  BY <1>2, <1>3 DEF Spawns, Done
<1>5. frame'[b].kids = <<>> /\ frame'[b].pc = "finished"
      /\ frame'[b].thrown = frame[b].thrown /\ frame'[b].out = frame[b].out
  BY <1>0, <1>1, <1>2 DEF Types, FrameType
<1>6. TaskOrder(frame[b], b, end, Spawns, Done)
  BY <1>1 DEF Ordered
<1>7. ~ frame[b].thrown => frame[b].pc = "join"
  BY <1>0, <1>1 DEF KeptInv, Joined
<1>8. ~ frame[b].thrown => Holds(frame[b].out, b, end[b], Spawns, Done)
  BY <1>1, <1>6, <1>7 DEF TaskOrder, Before
<1>9. TaskOrder(frame'[b], b, end, Spawns', Done')
  BY <1>1, <1>4, <1>5, <1>6, <1>8 DEF TaskOrder
<1> QED
  BY <1>1, <1>3, <1>4, <1>9, MoveOrdered

\* What is split off is what the parent would have ended with.
LEMMA SpawnOrdered ==
    ASSUME ParInv, NEW w \in Workers, NEW b \in Items, Fork(w, b),
           Length(Split(frame[b].part, w).rest) # 0, ~ early, NEW end, Ordered(end)
    PROVE  \E new : Ordered(new)'
<1> DEFINE parts == Split(frame[b].part, w)
           own == parts.own
           rest == parts.rest
           last == frame[b].part.last
           kids == frame[b].kids
<1>0. Types /\ PartInv /\ RunInv /\ StackInv /\ StateInv /\ KidInv /\ KeptInv
  BY DEF ParInv
<1>1. Spawned(b) /\ frame[b].pc = "split" /\ frame[b] \in FrameType /\ ~ frame[b].thrown
  BY <1>0, InStack DEF Fork, StateInv
<1>2. /\ frame[b].part \in Part /\ frame[b].part.first = b /\ b <= last /\ last \in Int /\ b \in Nat
      /\ kids \in Seq(Items)
  BY <1>0, <1>1, CallsTyped DEF PartInv, FrameType, Part
<1>3. PICK at \in b + 1 .. last + 1 : IsCut(frame[b].part, at, parts)
  BY <1>0, <1>2, SplitCuts
<1>4. /\ own.last = at - 1 /\ rest.first = at /\ rest.last = last /\ at \in b + 1 .. last
  BY <1>2, <1>3 DEF IsCut, Length
<1>5. /\ frame' = [[frame EXCEPT ![b] = [frame[b] EXCEPT !.part = own, !.kids = Append(kids, at)]]
                         EXCEPT ![at] = Frame(rest)]
      /\ st' = [st EXCEPT ![at] = "queued"]
      /\ UNCHANGED runs
  BY <1>4 DEF Fork
<1> HIDE DEF own, rest, last, parts, kids
<1>6. at \in Items /\ at # b /\ at \in Nat /\ st[at] = "none" /\ at \notin Roots
  <2>1. PICK k \in Calls : b \in RangeOf(k)
    BY CallsTyped
  <2>2. last <= Ranges[k][2]
    BY <1>0, <1>1, <2>1 DEF PartInv, last
  <2>3. at \in RangeOf(k) /\ at \in Items /\ at # b /\ at \in Nat
    BY <1>2, <1>4, <2>1, <2>2, CallsTyped DEF RangeOf
  <2>4. ~ Spawned(at)
    <3>1. b < at /\ ~ (last < at)
      BY <1>2, <1>4, <2>3
    <3> QED
      BY <1>0, <1>1, <2>3, <3>1 DEF PartInv, last
  <2> QED
    BY <1>0, <2>3, <2>4 DEF PartInv, Spawned, Roots
<1>7. \A c \in Items : at \notin ToSet(frame[c].kids)
  BY <1>0, <1>6 DEF KidInv, IsKid, Live
<1>8. /\ \A c \in Items : c # b /\ c # at => frame'[c] = frame[c]
      /\ frame'[b] = [frame[b] EXCEPT !.part = own, !.kids = Append(kids, at)]
      /\ frame'[at] = Frame(rest)
  BY <1>0, <1>5, <1>6 DEF Types
<1>9. /\ frame'[b].part = own /\ frame'[b].kids = Append(kids, at) /\ frame'[b].pc = "split"
      /\ frame'[at].part = rest /\ frame'[at].kids = <<>> /\ frame'[at].pc = "split"
  BY <1>1, <1>8 DEF FrameType, Frame
<1>10. \A c \in Items : Spawned(c)' <=> Spawned(c) \/ c = at
  BY <1>0, <1>5, <1>6 DEF Types, Spawned
<1>11. /\ Spawns \subseteq Spawns' /\ Spawns' \subseteq Items /\ Done' = Done
       /\ (Spawns' \ Spawns) \cap Done = {}
  <2>1. Done' = Done /\ Spawns' = Spawns \cup {at}
    BY <1>5, <1>6, <1>10 DEF Done, Spawns
  <2>2. runs[at] = 0
    <3>1. at \in PartOf(b)
      BY <1>2, <1>4 DEF PartOf, last
    <3> QED
      BY <1>0, <1>1, <3>1 DEF RunInv
  <2> QED
    BY <2>1, <2>2 DEF Done, Spawns
<1> DEFINE new == [end EXCEPT ![at] = last]
<1>12. /\ new \in [Items -> Int] /\ new[at] = last /\ \A c \in Items : c # at => new[c] = end[c]
  BY <1>2, <1>6 DEF Ordered
<1> HIDE DEF new
<1>13. b <= end[b] /\ Chain(end, kids, end[b]) /\ last = Before(kids, end[b]) /\ end[b] \in Int
  BY <1>1 DEF Ordered, TaskOrder, kids, last
<1>14. \A c \in Items : \A x \in ToSet(frame[c].kids) : new[x] = end[x]
  <2> SUFFICES ASSUME NEW c \in Items, NEW x \in ToSet(frame[c].kids) PROVE new[x] = end[x]
    OBVIOUS
  <2>1. frame[c].kids \in Seq(Items)
    BY <1>0 DEF Types, FrameType
  <2>2. x \in Items
    BY <2>1, ElementOfSeq, LenProperties DEF ToSet
  <2> QED
    BY <1>7, <1>12, <2>2
<1>15. TaskOrder(frame'[b], b, new, Spawns', Done')
  <2>1. Chain(new, Append(kids, at), end[b]) /\ Before(Append(kids, at), end[b]) = at - 1
    <3>1. \A x \in ToSet(kids) : new[x] = end[x]
      BY <1>14 DEF kids
    <3>2. new[at] = Before(kids, end[b])
      BY <1>12, <1>13
    <3>3. PICK s \in Seq(Items), e \in Int : s = kids /\ e = end[b]
      BY <1>2, <1>13
    <3>4. Chain(new, Append(s, at), e) /\ Before(Append(s, at), e) = at - 1
      BY <1>6, <1>13, <3>1, <3>2, <3>3, ChainAppend
    <3> QED
      BY <3>3, <3>4
  <2>2. new[b] = end[b]
    BY <1>6, <1>12
  <2> QED
    BY <1>4, <1>9, <1>13, <2>1, <2>2 DEF TaskOrder
<1>16. TaskOrder(frame'[at], at, new, Spawns', Done')
  <2>1. Chain(new, <<>>, last)
    BY DEF Chain
  <2>2. at <= last
    BY <1>2, <1>4
  <2> QED
    BY <1>4, <1>9, <1>12, <2>1, <2>2 DEF TaskOrder, Before
<1>17. ASSUME NEW c \in Items, c # b, c # at, Spawned(c)
       PROVE  TaskOrder(frame'[c], c, new, Spawns', Done')
  <2>0. frame'[c] = frame[c] /\ frame[c] \in FrameType /\ new[c] = end[c]
    BY <1>0, <1>8, <1>12, <1>17 DEF Types
  <2>1. TaskOrder(frame[c], c, end, Spawns', Done')
    <3>1. TaskOrder(frame[c], c, end, Spawns, Done)
      BY <1>17 DEF Ordered
    <3> QED
      BY <1>11, <3>1, TaskOrderKept
  <2>2. frame[c].kids \in Seq(Items)
    BY <2>0 DEF FrameType
  <2>3. Chain(new, frame[c].kids, end[c])
    <3>1. \A n \in 1 .. Len(frame[c].kids) : frame[c].kids[n] \in ToSet(frame[c].kids)
      BY <2>2, LenProperties DEF ToSet
    <3>2. Chain(end, frame[c].kids, end[c])
      BY <2>1 DEF TaskOrder
    <3> QED
      BY <1>14, <3>1, <3>2 DEF Chain
  <2>4. ~ frame[c].thrown /\ frame[c].pc = "destroy" =>
           Holds(frame[c].out, c, new[Last(frame[c].kids)], Spawns', Done')
    <3>1. CASE frame[c].kids # <<>>
      <4>1. Last(frame[c].kids) \in ToSet(frame[c].kids)
        BY <2>2, <3>1, FrontSet
      <4>2. new[Last(frame[c].kids)] = end[Last(frame[c].kids)]
        BY <1>14, <4>1
      <4> QED
        BY <2>1, <4>2 DEF TaskOrder
    <3>2. CASE frame[c].kids = <<>>
      BY <1>0, <3>2 DEF KeptInv, Joined
    <3> QED
      BY <3>1, <3>2
  <2> QED
    BY <2>0, <2>1, <2>3, <2>4 DEF TaskOrder
<1>18. \A k \in Calls : new[Root(k)] = Ranges[k][2]
  <2> SUFFICES ASSUME NEW k \in Calls PROVE new[Root(k)] = Ranges[k][2]
    OBVIOUS
  <2>1. Root(k) \in Items /\ Root(k) # at
    BY <1>6, CallsTyped DEF Roots
  <2> QED
    BY <1>12, <2>1 DEF Ordered
<1>19. \A c \in Items : Spawned(c)' => TaskOrder(frame'[c], c, new, Spawns', Done')
  BY <1>10, <1>15, <1>16, <1>17
<1>20. \E e : /\ e \in [Items -> Int] /\ \A k \in Calls : e[Root(k)] = Ranges[k][2]
              /\ \A c \in Items : Spawned(c)' => TaskOrder(frame'[c], c, e, Spawns', Done')
  BY <1>12, <1>18, <1>19
<1> QED
  BY <1>20 DEF Ordered

LEMMA InitOrdered == ASSUME ParInit PROVE \E end : Ordered(end)
<1>0. ParInv /\ Types /\ PartInv
  BY ParInitInv DEF ParInv
<1> DEFINE end == [b \in Items |-> frame[b].part.last]
<1>1. /\ \A b \in Items : Spawned(b) <=> b \in Roots
      /\ \A b \in Items : frame[b].pc = "split" /\ frame[b].kids = <<>>
  BY DEF ParInit, Frame, Spawned
<1>2. end \in [Items -> Int]
  BY <1>0 DEF Types, FrameType, Part
<1>3. ASSUME NEW k \in Calls PROVE end[Root(k)] = Ranges[k][2]
  <2>1. Ranges[k][2] \in RangeOf(k) /\ Root(k) \in Items /\ Root(k) \in RangeOf(k)
    BY CallsTyped DEF RangeOf
  <2>2. PICK b \in RangeOf(k) : Spawned(b) /\ Ranges[k][2] \in PartOf(b)
    BY <1>0, <2>1, PartWithItem
  <2>3. b \in Items /\ b \in Roots
    BY <1>1, <2>2, CallsTyped
  <2>4. b = Root(k)
    BY <2>2, <2>3, CallsTyped DEF Roots
  <2>5. frame[b].part.last <= Ranges[k][2] /\ frame[b].part.last \in Int /\ Ranges[k][2] \in Int
    <3>1. frame[b].part.last \in Int
      BY <1>0, <2>3 DEF Types, FrameType, Part
    <3>2. frame[b].part.last <= Ranges[k][2]
      BY <1>0, <2>2, <2>3 DEF PartInv
    <3> QED
      BY <3>1, <3>2, CallsTyped
  <2>6. frame[b].part.last = Ranges[k][2]
    BY <2>2, <2>5 DEF PartOf
  <2> QED
    BY <2>1, <2>4, <2>6
<1>4. ASSUME NEW b \in Items, Spawned(b) PROVE TaskOrder(frame[b], b, end, Spawns, Done)
  <2>1. b <= end[b] /\ frame[b].part.last = end[b]
    BY <1>0, <1>4 DEF PartInv
  <2>2. Chain(end, <<>>, end[b]) /\ Before(<<>>, end[b]) = end[b]
    BY DEF Chain, Before
  <2> HIDE DEF end
  <2> QED
    BY <1>1, <2>1, <2>2 DEF TaskOrder
<1> HIDE DEF end
<1> QED
  BY <1>2, <1>3, <1>4 DEF Ordered

LEMMA OrderStep == ParInv /\ OrderInv /\ [ParStep]_parVars => OrderInv'
<1> SUFFICES ASSUME ParInv, OrderInv, [ParStep]_parVars, ~ early'
             PROVE  \E end : Ordered(end)'
  BY DEF OrderInv
<1>1. UNCHANGED scenario
  <2>1. ASSUME NEW w \in Workers, NEW b \in Items, Begin(w, b) \/ Work(w, b) \/ Release(w, b)
        PROVE  UNCHANGED scenario
    BY <2>1 DEF Begin, Work, Release
  <2>2. ASSUME NEW w \in Workers, NEW b \in Items, Fork(w, b) PROVE UNCHANGED scenario
    BY <2>2 DEF Fork
  <2>3. ASSUME NEW w \in Workers, NEW b \in Items, Join(w, b) \/ Destroy(w, b) \/ Finish(w, b)
        PROVE  UNCHANGED scenario
    BY <2>3 DEF Join, Destroy, Finish
  <2> QED
    BY <2>1, <2>2, <2>3 DEF ParStep, parVars
<1>2. ~ early
  BY <1>1 DEF early
<1>3. PICK end : Ordered(end)
  BY <1>2 DEF OrderInv
<1>4. CASE UNCHANGED parVars
  <2>1. Ordered(end)'
    BY <1>3, <1>4, StandOrdered DEF parVars, Spawned
  <2> QED
    BY <2>1
<1>5. CASE ParStep
  <2>1. PICK w \in Workers, b \in Items :
           Begin(w, b) \/ Fork(w, b) \/ Work(w, b) \/ Join(w, b) \/ Destroy(w, b)
              \/ Finish(w, b) \/ Release(w, b)
    BY <1>5 DEF ParStep
  <2>2. CASE Begin(w, b)
    <3>1. \A c \in Items : Spawned(c)' <=> Spawned(c)
      BY <2>2 DEF Begin, Spawned, ParInv, Types
    <3>2. Ordered(end)'
      BY <1>3, <2>2, <3>1, StandOrdered DEF Begin
    <3> QED
      BY <3>2
  <2>3. CASE Fork(w, b)
    <3>1. CASE Length(Split(frame[b].part, w).rest) = 0
      <4>1. Ordered(end)'
        BY <1>3, <2>3, <3>1, StartWorkOrdered
      <4> QED
        BY <4>1
    <3>2. CASE Length(Split(frame[b].part, w).rest) # 0
      BY <1>2, <1>3, <2>3, <3>2, SpawnOrdered
    <3> QED
      BY <3>1, <3>2
  <2>4. CASE Work(w, b) \/ Join(w, b) \/ Destroy(w, b) \/ Finish(w, b)
    <3>1. Ordered(end)'
      BY <1>2, <1>3, <2>4, WorkOrdered, JoinOrdered, DestroyOrdered, FinishOrdered
    <3> QED
      BY <3>1
  <2>5. CASE Release(w, b)
    <3>1. Ordered(end)'
      BY <1>3, <2>5, StandOrdered DEF Release, Spawned
    <3> QED
      BY <3>1
  <2> QED
    BY <2>1, <2>2, <2>3, <2>4, <2>5
<1> QED
  BY <1>4, <1>5

LEMMA InOrderAtEnd == ParInv /\ OrderInv => ResultsInOrder
<1> SUFFICES ASSUME ParInv, OrderInv, ~ early, NEW k \in Calls, st[Root(k)] = "completed"
             PROVE  /\ ItemsInOrder(frame[Root(k)].out, Ranges[k][1], Ranges[k][2])
                    /\ Cardinality(Starts(frame[Root(k)].out)) = Cardinality(Parts(k))
  BY DEF ResultsInOrder
<1>1. PICK end : Ordered(end)
  BY DEF OrderInv
<1>2. Root(k) \in Items /\ Root(k) = Ranges[k][1] /\ Spawned(Root(k)) /\ end[Root(k)] = Ranges[k][2]
  BY <1>1, CallsTyped DEF Spawned, Ordered
<1>3. frame[Root(k)].pc = "finished" /\ ~ frame[Root(k)].thrown
  BY <1>2 DEF ParInv, StateInv
<1>4. Holds(frame[Root(k)].out, Ranges[k][1], Ranges[k][2], Spawns, Done)
  BY <1>1, <1>2, <1>3 DEF Ordered, TaskOrder
<1>5. Within(Spawns, Ranges[k][1], Ranges[k][2]) = Parts(k)
  BY CallsTyped DEF Within, Spawns, Spawned, Parts, RangeOf
<1> QED
  BY <1>4, <1>5 DEF Holds

\* A call that returns normally has its partial results combined in the order of
\* the items, with an initial value for each part, whoever processed the parts and
\* however they were split.  It throws only what one of its items threw, and does so
\* whenever one did: no join and no destructor on the way loses the exception.
THEOREM OutcomesInOrder == Spec => []Outcome
<1>1. Init => OrderInv
  BY InitOrdered DEF Init, OrderInv
<1>2. ParInv /\ OrderInv /\ [Next]_vars => OrderInv'
  BY StepsOfBoth, OrderStep
<1>3. ParInv /\ OrderInv => Outcome
  BY Reaches, InOrderAtEnd DEF Outcome
<1> QED
  BY <1>1, <1>2, <1>3, CallsConsistent, PTL DEF Spec

-----------------------------------------------------------------------------
(* How far auto_partitioner splits.  Each task but the root has a seat, and *)
(* spare seats for what it may still split off.  The seats are numbered     *)
(* 1 .. Hardware - 1, once for each call and once for each steal.           *)

SeatType == [of : Items, nr : Int, spare : Items, lo : Int, hi : Int]

\* Seats of o are for tasks of b's call.
IsSource(o, b) == SameCall(o, b) /\ (o \in Roots \/ o \in stolen)

\* Into how many parts task b may still split its own.
Claim(b) ==
    IF \/ frame[b].part.thread = None
       \/ \E w \in Workers : On(w, b) /\ frame[b].part.thread # w
    THEN Hardware ELSE frame[b].part.num

SameSeat(g, b, c) == g[b].of = g[c].of /\ g[b].nr = g[c].nr
IsSpare(g, b, o, n) == o = g[b].spare /\ g[b].lo <= n /\ n <= g[b].hi

Seated(g) ==
    /\ g \in [Items -> SeatType]
    /\ \A b \in Items : Spawned(b) =>
          /\ IsSource(g[b].of, b) /\ g[b].nr <= Hardware - 1 /\ (b \notin Roots => 1 <= g[b].nr)
          /\ IsSource(g[b].spare, b) /\ 1 <= g[b].lo /\ g[b].hi <= Hardware - 1
          /\ frame[b].pc = "split" => Claim(b) <= g[b].hi - g[b].lo + 2
    /\ \A b, c \in Items : Spawned(b) /\ Spawned(c) =>
          /\ b # c /\ b \notin Roots /\ c \notin Roots => ~ SameSeat(g, b, c)
          /\ b # c => \A o \in Items, n \in Int : ~ (IsSpare(g, b, o, n) /\ IsSpare(g, c, o, n))
          /\ b \notin Roots => ~ IsSpare(g, c, g[b].of, g[b].nr)

StolenInv ==
    /\ stolen \subseteq Items
    /\ \A b \in stolen : st[b] \notin {"none", "queued"}
    /\ \A b \in Roots : st[b] = "queued" => frame[b].part.thread = None

SeatInv == StolenInv /\ (kind = "auto" => \E g : Seated(g))

-----------------------------------------------------------------------------
\* A split shares the seats out.
LEMMA AutoShares ==
    ASSUME Types, kind = "auto", NEW p \in Part, p.first <= p.last, NEW w \in Workers,
           Length(Split(p, w).rest) # 0
    PROVE  LET n == IF p.thread # w THEN Hardware ELSE p.num
           IN  /\ n >= 2 /\ n \in Nat
               /\ Split(p, w).own.num = n - n \div 2 /\ Split(p, w).own.thread = w
               /\ Split(p, w).rest.num = n \div 2 /\ Split(p, w).rest.thread = w
<1> DEFINE num == IF p.thread # w THEN Hardware ELSE p.num
           half == p.first + (Length(p) + 1) \div 2
           halves == Cut([p EXCEPT !.thread = w], half)
<1>1. p.num \in Nat /\ p.first \in Int /\ p.last \in Int /\ Hardware \in Nat \ {0} /\ num \in Nat
  BY ParallelAssumption DEF Part
<1>2. Split(p, w) = split_auto(p, w)
  BY DEF Split
<1>3. Length(Uncut(p).rest) = 0
  BY <1>1 DEF Uncut, Cut, Length, Part
<1>4. split_auto(p, w) = IF Length(p) <= p.grain \/ num <= 1 THEN Uncut(p)
                         ELSE [own |-> [halves.own EXCEPT !.num = num - num \div 2],
                               rest |-> [halves.rest EXCEPT !.num = num \div 2]]
  BY DEF split_auto
<1>5. ~ (num <= 1)
       /\ Split(p, w) = [own |-> [halves.own EXCEPT !.num = num - num \div 2],
                         rest |-> [halves.rest EXCEPT !.num = num \div 2]]
  <2> HIDE DEF num, halves
  <2> QED
    BY <1>2, <1>3, <1>4
<1> HIDE DEF num, half
<1>6. /\ halves.own = [p EXCEPT !.thread = w, !.last = half - 1]
      /\ halves.rest = [p EXCEPT !.thread = w, !.first = half]
  BY DEF Cut, Part
<1>7. \A n : /\ [halves.own EXCEPT !.num = n].num = n /\ [halves.own EXCEPT !.num = n].thread = w
              /\ [halves.rest EXCEPT !.num = n].num = n /\ [halves.rest EXCEPT !.num = n].thread = w
  BY <1>6 DEF Part
<1>8. /\ Split(p, w).own = [halves.own EXCEPT !.num = num - num \div 2]
      /\ Split(p, w).rest = [halves.rest EXCEPT !.num = num \div 2]
  BY <1>5
<1>9. num >= 2
  BY <1>1, <1>5
<1>10. /\ Split(p, w).own.num = num - num \div 2 /\ Split(p, w).own.thread = w
       /\ Split(p, w).rest.num = num \div 2 /\ Split(p, w).rest.thread = w
  BY <1>7, <1>8
<1> QED
  BY <1>1, <1>9, <1>10 DEF num

-----------------------------------------------------------------------------
\* Tasks that still split do so as before.
LEMMA StillSeated ==
    ASSUME NEW g, Seated(g), UNCHANGED stolen, \A c \in Items : Spawned(c)' <=> Spawned(c),
           \A c \in Items : frame'[c].pc = "split" =>
              /\ frame[c].pc = "split" /\ frame'[c].part = frame[c].part
              /\ \A w \in Workers : On(w, c)' <=> On(w, c)
    PROVE  Seated(g)'
<1>1. \A b \in Items : \A o \in Items : IsSource(o, b)' <=> IsSource(o, b)
  BY DEF IsSource, SameCall
<1>2. \A c \in Items : frame'[c].pc = "split" => frame[c].pc = "split" /\ Claim(c)' = Claim(c)
  BY DEF Claim
<1>3. g \in [Items -> SeatType] /\ \A b \in Items : g[b].of \in Items /\ g[b].spare \in Items
  BY DEF Seated, SeatType
<1>4. \A b \in Items : Spawned(b)' =>
          /\ IsSource(g[b].of, b)' /\ g[b].nr <= Hardware - 1 /\ (b \notin Roots => 1 <= g[b].nr)
          /\ IsSource(g[b].spare, b)' /\ 1 <= g[b].lo /\ g[b].hi <= Hardware - 1
          /\ frame'[b].pc = "split" => Claim(b)' <= g[b].hi - g[b].lo + 2
  BY <1>1, <1>2, <1>3 DEF Seated
<1>5. \A b, c \in Items : Spawned(b)' /\ Spawned(c)' =>
          /\ b # c /\ b \notin Roots /\ c \notin Roots => ~ SameSeat(g, b, c)
          /\ b # c => \A o \in Items, n \in Int : ~ (IsSpare(g, b, o, n) /\ IsSpare(g, c, o, n))
          /\ b \notin Roots => ~ IsSpare(g, c, g[b].of, g[b].nr)
  BY DEF Seated
<1> QED
  BY <1>3, <1>4, <1>5 DEF Seated

\* A thief gets the seats of its steal, which nobody else has.
LEMMA BeginSeated ==
    ASSUME ParInv, StolenInv, NEW w \in Workers, NEW b \in Items, Begin(w, b), NEW g, Seated(g)
    PROVE  \E new : Seated(new)'
<1>0. Types /\ StackInv
  BY DEF ParInv
<1>1. /\ st[b] = "queued" /\ UNCHANGED frame /\ Spawned(b)
      /\ stolen' = IF frame[b].part.thread \in {None, w} THEN stolen ELSE stolen \cup {b}
      /\ \A c \in Items : Spawned(c)' <=> Spawned(c)
  BY <1>0 DEF Begin, Types, Spawned
<1>2. /\ \A v \in Workers : ~ On(v, b)
      /\ \A v \in Workers : \A c \in Items : On(v, c)' <=> On(v, c) \/ (v = w /\ c = b)
  <2>1. \A v \in Workers : ~ On(v, b)
    BY <1>0, <1>1 DEF StackInv
  <2>2. /\ stack'[w] = Append(stack[w], b) /\ \A v \in Workers : v # w => stack'[v] = stack[v]
        /\ stack[w] \in Seq(Items)
    BY <1>0 DEF Begin, Types
  <2>3. ToSet(stack'[w]) = ToSet(stack[w]) \cup {b}
    BY <2>2, AppendSet
  <2> QED
    BY <2>1, <2>2, <2>3 DEF On
<1>3. \A c \in Items : c # b => Claim(c)' = Claim(c)
  BY <1>1, <1>2 DEF Claim
<1>4. CASE frame[b].part.thread \in {None, w}
  <2>1. Claim(b)' = Claim(b)
    BY <1>1, <1>2, <1>4 DEF Claim
  <2>2. \A c \in Items : \A o \in Items : IsSource(o, c)' <=> IsSource(o, c)
    BY <1>1, <1>4 DEF IsSource, SameCall
  <2>3. \A c \in Items : g[c].of \in Items /\ g[c].spare \in Items /\ Claim(c)' = Claim(c)
    BY <1>3, <2>1 DEF Seated, SeatType
  <2>4. Seated(g)'
    BY <1>1, <2>2, <2>3 DEF Seated
  <2> QED
    BY <2>4
<1>5. CASE frame[b].part.thread \notin {None, w}
  <2>1. b \notin Roots /\ b \notin stolen /\ stolen' = stolen \cup {b}
    BY <1>1, <1>5 DEF StolenInv
  <2> DEFINE new == [g EXCEPT ![b] = [g[b] EXCEPT !.spare = b, !.lo = 1, !.hi = Hardware - 1]]
  <2>2. /\ g \in [Items -> SeatType] /\ Hardware \in Int
        /\ [g[b] EXCEPT !.spare = b, !.lo = 1, !.hi = Hardware - 1] \in SeatType
    <3>1. g \in [Items -> SeatType] /\ Hardware \in Int /\ Hardware - 1 \in Int /\ 1 \in Int
      BY ParallelAssumption DEF Seated
    <3>2. g[b] \in SeatType
      BY <3>1
    <3> QED
      BY <3>1, <3>2 DEF SeatType
  <2>3. /\ new \in [Items -> SeatType] /\ \A c \in Items : c # b => new[c] = g[c]
        /\ new[b].spare = b /\ new[b].lo = 1 /\ new[b].hi = Hardware - 1
        /\ new[b].of = g[b].of /\ new[b].nr = g[b].nr
    BY <2>2 DEF SeatType
  <2> HIDE DEF new
  <2>4. \A c \in Items : new[c].of = g[c].of /\ new[c].nr = g[c].nr /\ g[c] \in SeatType
    BY <2>2, <2>3
  <2>5. \A c \in Items : Spawned(c) => g[c].of # b /\ g[c].spare # b
    BY <2>1 DEF Seated, IsSource
  <2>6. \A c \in Items : \A o \in Items : IsSource(o, c) => IsSource(o, c)'
    BY <2>1 DEF IsSource, SameCall
  <2>7. ASSUME NEW c \in Items, Spawned(c)'
        PROVE  /\ IsSource(new[c].of, c)' /\ new[c].nr <= Hardware - 1
               /\ (c \notin Roots => 1 <= new[c].nr)
               /\ IsSource(new[c].spare, c)' /\ 1 <= new[c].lo /\ new[c].hi <= Hardware - 1
               /\ frame'[c].pc = "split" => Claim(c)' <= new[c].hi - new[c].lo + 2
    <3>1. /\ Spawned(c) /\ IsSource(g[c].of, c) /\ g[c].nr <= Hardware - 1
          /\ (c \notin Roots => 1 <= g[c].nr) /\ g[c].of \in Items /\ g[c].spare \in Items
      BY <1>1, <2>4, <2>7 DEF Seated, SeatType
    <3>2. CASE c = b
      <4>1. IsSource(b, b)'
        BY <2>1, SameCallFacts DEF IsSource, SameCall
      <4>2. Claim(b)' = Hardware
        BY <1>1, <1>2, <1>5 DEF Claim
      <4>3. Hardware <= (Hardware - 1) - 1 + 2
        BY <2>2
      <4> QED
        BY <2>2, <2>3, <2>6, <3>1, <3>2, <4>1, <4>2, <4>3
    <3>3. CASE c # b
      <4>1. /\ IsSource(g[c].spare, c) /\ 1 <= g[c].lo /\ g[c].hi <= Hardware - 1
            /\ frame[c].pc = "split" => Claim(c) <= g[c].hi - g[c].lo + 2
        BY <3>1 DEF Seated
      <4>2. new[c] = g[c] /\ Claim(c)' = Claim(c)
        BY <1>3, <2>3, <3>3
      <4> QED
        BY <1>1, <2>6, <3>1, <4>1, <4>2
    <3> QED
      BY <3>2, <3>3
  <2>8. ASSUME NEW c \in Items, NEW d \in Items, Spawned(c)', Spawned(d)'
        PROVE  /\ c # d /\ c \notin Roots /\ d \notin Roots => ~ SameSeat(new, c, d)
               /\ c # d => \A o \in Items, n \in Int : ~ (IsSpare(new, c, o, n) /\ IsSpare(new, d, o, n))
               /\ c \notin Roots => ~ IsSpare(new, d, new[c].of, new[c].nr)
    <3>0. Spawned(c) /\ Spawned(d)
      BY <1>1, <2>8
    <3>1. c # d /\ c \notin Roots /\ d \notin Roots => ~ SameSeat(new, c, d)
      BY <2>4, <3>0 DEF Seated, SameSeat
    <3>2. c # d => \A o \in Items, n \in Int : ~ (IsSpare(new, c, o, n) /\ IsSpare(new, d, o, n))
      <4>1. \A e \in {c, d} : \A o \in Items, n \in Int : IsSpare(new, e, o, n) => IsSpare(g, e, o, n) \/ (o = b /\ e = b)
        BY <2>3 DEF IsSpare
      <4>2. \A e \in {c, d} : \A o \in Items, n \in Int : IsSpare(g, e, o, n) => o # b
        BY <2>5, <3>0 DEF IsSpare
      <4> QED
        BY <3>0, <4>1, <4>2 DEF Seated
    <3>3. c \notin Roots => ~ IsSpare(new, d, new[c].of, new[c].nr)
      <4>1. CASE d = b
        BY <2>3, <2>4, <2>5, <3>0, <4>1 DEF IsSpare
      <4>2. CASE d # b
        BY <2>3, <2>4, <3>0, <4>2 DEF Seated, IsSpare
      <4> QED
        BY <4>1, <4>2
    <3> QED
      BY <3>1, <3>2, <3>3
  <2>9. Seated(new)'
    BY <2>3, <2>7, <2>8 DEF Seated
  <2> QED
    BY <2>9
<1> QED
  BY <1>4, <1>5

\* The task that is split off is a new one, of the same call.
LEMMA Spawning ==
    ASSUME ParInv, NEW w \in Workers, NEW b \in Items, Fork(w, b),
           Length(Split(frame[b].part, w).rest) # 0
    PROVE  /\ UNCHANGED <<scenario, stack, stolen>> /\ On(w, b) /\ st[b] = "running"
           /\ frame[b].pc = "split" /\ frame[b].part \in Part
           /\ frame[b].part.first <= frame[b].part.last
           /\ \E at \in Items :
                 /\ at # b /\ st[at] = "none" /\ at \notin Roots /\ SameCall(b, at)
                 /\ st'[at] = "queued" /\ \A c \in Items : c # at => st'[c] = st[c]
                 /\ frame'[b].part = Split(frame[b].part, w).own
                 /\ frame'[at].part = Split(frame[b].part, w).rest
                 /\ \A c \in Items : c # b /\ c # at => frame'[c] = frame[c]
<1> DEFINE own == Split(frame[b].part, w).own
           rest == Split(frame[b].part, w).rest
           p == frame[b].part
<1>0. Types /\ PartInv
  BY DEF ParInv
<1>1. /\ Spawned(b) /\ frame[b].pc = "split" /\ frame[b] \in FrameType /\ On(w, b) /\ st[b] = "running"
      /\ p \in Part /\ p.first = b /\ p.first <= p.last /\ p.last \in Int
  <2>1. Spawned(b) /\ frame[b].pc = "split" /\ frame[b] \in FrameType /\ On(w, b) /\ st[b] = "running"
    BY InStack DEF Fork, On
  <2> QED
    BY <1>0, <2>1 DEF PartInv, FrameType, Part
<1>2. PICK at \in b + 1 .. p.last + 1 : IsCut(p, at, Split(p, w))
  BY <1>0, <1>1, SplitCuts
<1>3. rest.first = at /\ at \in b + 1 .. p.last
  BY <1>1, <1>2, CallsTyped DEF IsCut, Length
<1>4. /\ frame' = [[frame EXCEPT ![b] = [frame[b] EXCEPT !.part = own, !.kids = Append(frame[b].kids, at)]]
                         EXCEPT ![at] = Frame(rest)]
      /\ st' = [st EXCEPT ![at] = "queued"]
      /\ UNCHANGED <<scenario, stack, stolen>>
  BY <1>3 DEF Fork
<1> HIDE DEF own, rest
<1>5. at \in Items /\ at # b /\ st[at] = "none" /\ at \notin Roots /\ SameCall(b, at)
  <2>1. PICK k \in Calls : b \in RangeOf(k)
    BY CallsTyped
  <2>2. p.last <= Ranges[k][2]
    BY <1>0, <1>1, <2>1 DEF PartInv
  <2>3. at \in RangeOf(k) /\ at \in Items /\ b < at /\ ~ (p.last < at)
    BY <1>1, <1>3, <2>1, <2>2, CallsTyped DEF RangeOf
  <2>4. ~ Spawned(at)
    BY <1>0, <1>1, <2>3 DEF PartInv
  <2>5. at # b
    BY <1>1, <2>4
  <2> QED
    BY <1>0, <2>1, <2>3, <2>4, <2>5 DEF PartInv, Spawned, Roots, SameCall
<1>6. /\ \A c \in Items : c # b /\ c # at => frame'[c] = frame[c]
      /\ frame'[b] = [frame[b] EXCEPT !.part = own, !.kids = Append(frame[b].kids, at)]
      /\ frame'[at] = Frame(rest)
  BY <1>0, <1>4, <1>5 DEF Types
<1>7. frame'[b].part = own /\ frame'[at].part = rest
  BY <1>1, <1>6 DEF FrameType, Frame
<1>8. st'[at] = "queued" /\ \A c \in Items : c # at => st'[c] = st[c]
  BY <1>0, <1>4, <1>5 DEF Types
<1> QED
  BY <1>1, <1>4, <1>5, <1>6, <1>7, <1>8 DEF own, rest

\* What is split off gets the first seat that its parent has to spare, and the
\* next ones to spare itself.
LEMMA SpawnSeated ==
    ASSUME ParInv, kind = "auto", NEW w \in Workers, NEW b \in Items, Fork(w, b),
           Length(Split(frame[b].part, w).rest) # 0, NEW g, Seated(g)
    PROVE  \E new : Seated(new)'
<1> DEFINE p == frame[b].part
           own == Split(p, w).own
           rest == Split(p, w).rest
<1>1. PICK n : n = IF p.thread # w THEN Hardware ELSE p.num
  OBVIOUS
<1>2. Types /\ PartInv /\ StackInv /\ StateInv
  BY DEF ParInv
<1>3. /\ Spawned(b) /\ frame[b].pc = "split" /\ On(w, b) /\ p \in Part /\ p.first <= p.last
      /\ UNCHANGED <<stack, stolen>>
  BY Spawning DEF Spawned
<1>4. /\ n >= 2 /\ n \in Nat
      /\ own.num = n - n \div 2 /\ own.thread = w /\ rest.num = n \div 2 /\ rest.thread = w
  BY <1>1, <1>2, <1>3, AutoShares
<1>5. Claim(b) = n
  <2>1. \A v \in Workers : On(v, b) => v = w
    BY <1>2, <1>3 DEF StackInv
  <2>2. p.thread = None => p.thread # w
    BY ParallelAssumption
  <2> QED
    BY <1>1, <1>3, <2>1, <2>2 DEF Claim
<1>6. PICK at \in Items :
         /\ at # b /\ st[at] = "none" /\ at \notin Roots /\ SameCall(b, at)
         /\ st'[at] = "queued" /\ \A c \in Items : c # at => st'[c] = st[c]
         /\ frame'[b].part = own /\ frame'[at].part = rest
         /\ \A c \in Items : c # b /\ c # at => frame'[c] = frame[c]
  BY Spawning
<1> HIDE DEF own, rest
<1>7. /\ \A c \in Items : Spawned(c)' <=> Spawned(c) \/ c = at
      /\ ~ Spawned(at) /\ \A v \in Workers : \A c \in Items : On(v, c)' <=> On(v, c)
      /\ \A v \in Workers : ~ On(v, at)
  BY <1>2, <1>3, <1>6 DEF Types, Spawned, On, StackInv, Live
<1>8. /\ Claim(at)' = n \div 2 /\ Claim(b)' = n - n \div 2
       /\ \A c \in Items : c # b /\ c # at => Claim(c)' = Claim(c)
  <2>1. w # None
    BY ParallelAssumption
  <2>2. \A v \in Workers : On(v, b) => v = w
    BY <1>2, <1>3 DEF StackInv
  <2>3. Claim(at)' = n \div 2
    BY <1>4, <1>6, <1>7, <2>1 DEF Claim
  <2>4. Claim(b)' = n - n \div 2
    BY <1>4, <1>6, <1>7, <2>1, <2>2 DEF Claim
  <2>5. \A c \in Items : c # b /\ c # at => Claim(c)' = Claim(c)
    BY <1>6, <1>7 DEF Claim
  <2> QED
    BY <2>3, <2>4, <2>5
<1>9. /\ g \in [Items -> SeatType] /\ g[b] \in SeatType
       /\ g[b].spare \in Items /\ g[b].lo \in Int /\ g[b].hi \in Int
  <2>1. g \in [Items -> SeatType]
    BY DEF Seated
  <2>2. g[b] \in SeatType
    BY <2>1
  <2> QED
    BY <2>1, <2>2 DEF SeatType
<1> DEFINE o == g[b].spare
           lo == g[b].lo
           hi == g[b].hi
           mid == lo + n \div 2
<1>10. n <= hi - lo + 2 /\ 1 <= lo /\ hi <= Hardware - 1 /\ IsSource(o, b)
  BY <1>3, <1>5 DEF Seated
<1>11. /\ mid \in Int /\ lo < mid /\ lo <= hi /\ mid - 1 <= hi /\ Hardware \in Int
       /\ n \div 2 <= (mid - 1) - (lo + 1) + 2 /\ n - n \div 2 <= hi - mid + 2
  <2>1. n \div 2 \in Nat /\ 1 <= n \div 2 /\ n \div 2 < n
    BY <1>4
  <2>2. Hardware \in Int
    BY ParallelAssumption
  <2> QED
    BY <1>4, <1>9, <1>10, <2>1, <2>2
<1> HIDE DEF mid, p
<1> DEFINE seat == [of |-> o, nr |-> lo, spare |-> o, lo |-> lo + 1, hi |-> mid - 1]
           new == [[g EXCEPT ![b] = [g[b] EXCEPT !.lo = mid]] EXCEPT ![at] = seat]
<1>12. /\ new \in [Items -> SeatType] /\ new[at] = seat
       /\ new[b].of = g[b].of /\ new[b].nr = g[b].nr /\ new[b].spare = o
       /\ new[b].lo = mid /\ new[b].hi = hi
       /\ \A c \in Items : c # b /\ c # at => new[c] = g[c]
  <2>1. seat \in SeatType /\ [g[b] EXCEPT !.lo = mid] \in SeatType
    <3>1. lo + 1 \in Int /\ mid - 1 \in Int
      BY <1>9, <1>11
    <3> QED
      BY <1>9, <1>11, <3>1 DEF SeatType
  <2> HIDE DEF seat
  <2>2. /\ new \in [Items -> SeatType] /\ new[at] = seat /\ new[b] = [g[b] EXCEPT !.lo = mid]
        /\ \A c \in Items : c # b /\ c # at => new[c] = g[c]
    BY <1>6, <1>9, <2>1
  <2> HIDE DEF new
  <2>3. new[b].of = g[b].of /\ new[b].nr = g[b].nr /\ new[b].spare = o /\ new[b].lo = mid /\ new[b].hi = hi
    BY <1>9, <2>2 DEF SeatType
  <2> QED
    BY <2>2, <2>3
<1>13. /\ new[at].of = o /\ new[at].nr = lo /\ new[at].spare = o
       /\ new[at].lo = lo + 1 /\ new[at].hi = mid - 1
  BY <1>12
<1> HIDE DEF new, seat, o, lo, hi
<1>14. \A c \in Items : \A s \in Items : IsSource(s, c)' <=> IsSource(s, c)
  BY <1>3 DEF IsSource, SameCall
<1>15. \A c \in Items : c # at => new[c].of = g[c].of /\ new[c].nr = g[c].nr
  BY <1>12
<1>16. /\ \A s \in Items, m \in Int : IsSpare(new, b, s, m) => IsSpare(g, b, s, m)
       /\ \A s \in Items, m \in Int : IsSpare(new, at, s, m) => IsSpare(g, b, s, m)
       /\ \A s \in Items, m \in Int : ~ (IsSpare(new, b, s, m) /\ IsSpare(new, at, s, m))
       /\ ~ IsSpare(new, b, o, lo) /\ ~ IsSpare(new, at, o, lo) /\ IsSpare(g, b, o, lo)
       /\ \A c \in Items : c # b /\ c # at =>
             \A s \in Items, m \in Int : IsSpare(new, c, s, m) <=> IsSpare(g, c, s, m)
  <2>1. \A s \in Items, m \in Int : IsSpare(new, b, s, m) <=> s = o /\ mid <= m /\ m <= hi
    BY <1>12 DEF IsSpare
  <2>2. \A s \in Items, m \in Int : IsSpare(new, at, s, m) <=> s = o /\ lo + 1 <= m /\ m <= mid - 1
    BY <1>13 DEF IsSpare
  <2>3. \A s \in Items, m \in Int : IsSpare(g, b, s, m) <=> s = o /\ lo <= m /\ m <= hi
    BY DEF IsSpare, o, lo, hi
  <2>4. lo \in Int /\ hi \in Int /\ o \in Items /\ mid \in Int /\ lo < mid /\ lo <= hi /\ mid - 1 <= hi
    BY <1>9, <1>11 DEF lo, hi, o
  <2>5. \A c \in Items : c # b /\ c # at =>
             \A s \in Items, m \in Int : IsSpare(new, c, s, m) <=> IsSpare(g, c, s, m)
    BY <1>12 DEF IsSpare
  <2>6. \A s \in Items, m \in Int : IsSpare(new, b, s, m) => IsSpare(g, b, s, m)
    BY <2>1, <2>3, <2>4
  <2>7. \A s \in Items, m \in Int : IsSpare(new, at, s, m) => IsSpare(g, b, s, m)
    BY <2>2, <2>3, <2>4
  <2>8. \A s \in Items, m \in Int : ~ (IsSpare(new, b, s, m) /\ IsSpare(new, at, s, m))
    BY <2>1, <2>2, <2>4
  <2>9. ~ IsSpare(new, b, o, lo) /\ ~ IsSpare(new, at, o, lo) /\ IsSpare(g, b, o, lo)
    BY <2>1, <2>2, <2>3, <2>4
  <2> QED
    BY <2>5, <2>6, <2>7, <2>8, <2>9
<1>17. ASSUME NEW c \in Items, Spawned(c)'
       PROVE  /\ IsSource(new[c].of, c)' /\ new[c].nr <= Hardware - 1
              /\ (c \notin Roots => 1 <= new[c].nr)
              /\ IsSource(new[c].spare, c)' /\ 1 <= new[c].lo /\ new[c].hi <= Hardware - 1
              /\ frame'[c].pc = "split" => Claim(c)' <= new[c].hi - new[c].lo + 2
  <2>1. CASE c = at
    <3>1. o \in Items /\ IsSource(o, at)
      BY <1>6, <1>9, <1>10, SameCallFacts DEF IsSource, o
    <3>2. lo <= Hardware - 1 /\ 1 <= lo /\ 1 <= lo + 1 /\ mid - 1 <= Hardware - 1
      BY <1>9, <1>10, <1>11 DEF lo, hi
    <3>3. n \div 2 <= (mid - 1) - (lo + 1) + 2
      BY <1>11 DEF lo
    <3> QED
      BY <1>6, <1>8, <1>13, <1>14, <2>1, <3>1, <3>2, <3>3
  <2>2. CASE c = b
    <3>1. /\ IsSource(g[b].of, b) /\ g[b].nr <= Hardware - 1 /\ (b \notin Roots => 1 <= g[b].nr)
          /\ g[b].of \in Items /\ o \in Items /\ IsSource(o, b)
      BY <1>3, <1>9, <1>10 DEF Seated, SeatType, o
    <3>2. 1 <= mid /\ hi <= Hardware - 1 /\ n - n \div 2 <= hi - mid + 2
      BY <1>9, <1>10, <1>11 DEF lo, hi
    <3> QED
      BY <1>8, <1>12, <1>14, <2>2, <3>1, <3>2
  <2>3. CASE c # at /\ c # b
    <3>1. Spawned(c) /\ new[c] = g[c] /\ frame'[c] = frame[c] /\ Claim(c)' = Claim(c)
      BY <1>6, <1>7, <1>8, <1>12, <1>17, <2>3
    <3>2. g[c].of \in Items /\ g[c].spare \in Items
      BY <1>9 DEF SeatType
    <3>3. /\ IsSource(g[c].of, c) /\ g[c].nr <= Hardware - 1 /\ (c \notin Roots => 1 <= g[c].nr)
          /\ IsSource(g[c].spare, c) /\ 1 <= g[c].lo /\ g[c].hi <= Hardware - 1
          /\ frame[c].pc = "split" => Claim(c) <= g[c].hi - g[c].lo + 2
      BY <3>1 DEF Seated
    <3> QED
      BY <1>14, <3>1, <3>2, <3>3
  <2> QED
    BY <2>1, <2>2, <2>3
<1>18. ASSUME NEW c \in Items, NEW d \in Items, Spawned(c)', Spawned(d)'
       PROVE  /\ c # d /\ c \notin Roots /\ d \notin Roots => ~ SameSeat(new, c, d)
              /\ c # d => \A s \in Items, m \in Int : ~ (IsSpare(new, c, s, m) /\ IsSpare(new, d, s, m))
              /\ c \notin Roots => ~ IsSpare(new, d, new[c].of, new[c].nr)
  <2>0. /\ Spawned(b) /\ (c # at => Spawned(c)) /\ (d # at => Spawned(d)) /\ o \in Items /\ lo \in Int
        /\ \A e \in Items : g[e].of \in Items /\ g[e].nr \in Int
    BY <1>3, <1>7, <1>9, <1>18 DEF SeatType, o, lo
  <2>1. \A e \in Items : Spawned(e) /\ e \notin Roots => ~ (g[e].of = o /\ g[e].nr = lo)
    BY <1>16, <2>0 DEF Seated
  <2>2. c # d /\ c \notin Roots /\ d \notin Roots => ~ SameSeat(new, c, d)
    BY <1>13, <1>15, <2>0, <2>1 DEF Seated, SameSeat
  <2>3. c # d => \A s \in Items, m \in Int : ~ (IsSpare(new, c, s, m) /\ IsSpare(new, d, s, m))
    <3>1. \A s \in Items, m \in Int : \A e \in Items : e # b /\ Spawned(e) =>
             ~ (IsSpare(g, b, s, m) /\ IsSpare(g, e, s, m))
      BY <2>0 DEF Seated
    <3>2. c # d /\ c # at /\ d # at => \A s \in Items, m \in Int : ~ (IsSpare(g, c, s, m) /\ IsSpare(g, d, s, m))
      BY <2>0 DEF Seated
    <3>3. \A e \in Items : e # at => \A s \in Items, m \in Int : IsSpare(new, e, s, m) => IsSpare(g, e, s, m)
      BY <1>16
    <3> QED
      BY <1>16, <2>0, <3>1, <3>2, <3>3
  <2>4. c \notin Roots => ~ IsSpare(new, d, new[c].of, new[c].nr)
    <3>1. CASE c = at
      <4>1. \A e \in Items : e # b /\ Spawned(e) => ~ IsSpare(g, e, o, lo)
        BY <1>16, <2>0 DEF Seated
      <4> QED
        BY <1>13, <1>16, <2>0, <3>1, <4>1
    <3>2. CASE c # at
      <4>1. c \notin Roots => \A e \in Items : Spawned(e) => ~ IsSpare(g, e, g[c].of, g[c].nr)
        BY <2>0, <3>2 DEF Seated
      <4> QED
        BY <1>15, <1>16, <2>0, <3>2, <4>1
    <3> QED
      BY <3>1, <3>2
  <2> QED
    BY <2>2, <2>3, <2>4
<1>19. Seated(new)'
  BY <1>12, <1>17, <1>18 DEF Seated
<1> QED
  BY <1>19

\* The root has all the seats of its call to spare.
LEMMA InitSeated == ASSUME ParInit, ParInv PROVE \E g : Seated(g)
<1> DEFINE seat(b) == [of |-> b, nr |-> 0, spare |-> b, lo |-> 1, hi |-> Hardware - 1]
           g == [b \in Items |-> seat(b)]
<1>1. Hardware \in Int /\ Hardware - 1 \in Int /\ 0 <= Hardware - 1 /\ Hardware <= (Hardware - 1) - 1 + 2
  BY ParallelAssumption
<1>2. \A b \in Items : Spawned(b) <=> b \in Roots
  BY DEF ParInit, Spawned
<1>3. g \in [Items -> SeatType]
  <2>1. \A b \in Items : seat(b) \in SeatType
    BY <1>1 DEF SeatType
  <2> HIDE DEF seat
  <2> QED
    BY <2>1
<1>4. \A b \in Items : /\ g[b].of = b /\ g[b].nr = 0 /\ g[b].spare = b
                       /\ g[b].lo = 1 /\ g[b].hi = Hardware - 1
  OBVIOUS
<1> HIDE DEF g, seat
<1>5. ASSUME NEW b \in Items, b \in Roots PROVE IsSource(b, b) /\ Claim(b) = Hardware
  <2>1. PICK k \in Calls : b = Root(k)
    BY <1>5 DEF Roots
  <2> DEFINE call == CHOOSE j \in Calls : Root(j) = b
  <2>2. call \in Calls
    BY <2>1
  <2>3. frame[b] = Frame(Whole(call))
    BY <1>5 DEF ParInit
  <2>4. frame[b].part.thread = None
    BY <2>3 DEF Frame, Whole
  <2> QED
    BY <1>5, <2>4, SameCallFacts DEF IsSource, Claim
<1>6. \A b, c \in Items : b # c => \A o \in Items, n \in Int : ~ (IsSpare(g, b, o, n) /\ IsSpare(g, c, o, n))
  BY <1>4 DEF IsSpare
<1>7. Seated(g)
  BY <1>1, <1>2, <1>3, <1>4, <1>5, <1>6 DEF Seated
<1> QED
  BY <1>7

-----------------------------------------------------------------------------
\* Each step keeps the seats, and what is stolen.

LEMMA Steps ==
    ASSUME ParInv, NEW w \in Workers, NEW b \in Items,
           Work(w, b) \/ Join(w, b) \/ Destroy(w, b) \/ Finish(w, b)
    PROVE  /\ UNCHANGED <<scenario, stack, stolen>>
           /\ \A c \in Items : Spawned(c)' <=> Spawned(c)
           /\ \A c \in Items : c # b => frame'[c] = frame[c]
           /\ frame'[b].pc # "split" /\ st'[b] \notin {"none", "queued"}
           /\ \A c \in Items : st'[c] \in {"none", "queued"} => st'[c] = st[c]
<1>1. Types /\ KidInv
  BY DEF ParInv
<1>2. frame[b] \in FrameType /\ Spawned(b) /\ st[b] = "running"
  BY InStack DEF Work, Join, Destroy, Finish
<1>3. ASSUME NEW f, frame' = [frame EXCEPT ![b] = f], f.pc # "split"
      PROVE  frame'[b].pc # "split" /\ \A c \in Items : c # b => frame'[c] = frame[c]
  BY <1>1, <1>3 DEF Types
<1>4. /\ [frame[b] EXCEPT !.pc = "destroy", !.thrown = TRUE].pc # "split"
      /\ \A out : /\ [frame[b] EXCEPT !.pc = "destroy", !.out = out].pc # "split"
                  /\ [frame[b] EXCEPT !.pc = "join", !.out = out].pc # "split"
  BY <1>2 DEF FrameType
<1>5. CASE Work(w, b)
  <2> DEFINE out == <<Start>> \o UpTo(frame[b].part.first, frame[b].part.last)
  <2>1. /\ UNCHANGED <<scenario, stack, stolen, st>>
        /\ \/ frame' = [frame EXCEPT ![b] = [frame[b] EXCEPT !.pc = "destroy", !.thrown = TRUE]]
           \/ frame' = [frame EXCEPT ![b] = [frame[b] EXCEPT !.pc = "join", !.out = out]]
    BY <1>5 DEF Work
  <2> HIDE DEF out
  <2>2. frame'[b].pc # "split" /\ \A c \in Items : c # b => frame'[c] = frame[c]
    BY <1>3, <1>4, <2>1
  <2> QED
    BY <1>2, <2>1, <2>2 DEF Spawned
<1>6. CASE Join(w, b)
  <2>1. /\ UNCHANGED <<scenario, stack, stolen, st>>
        /\ \/ frame' = [frame EXCEPT ![b] = [frame[b] EXCEPT !.pc = "destroy", !.thrown = TRUE]]
           \/ \E out : frame' = [frame EXCEPT ![b] = [frame[b] EXCEPT !.pc = "destroy", !.out = out]]
    BY <1>6 DEF Join
  <2>2. frame'[b].pc # "split" /\ \A c \in Items : c # b => frame'[c] = frame[c]
    BY <1>3, <1>4, <2>1
  <2> QED
    BY <1>2, <2>1, <2>2 DEF Spawned
<1>7. CASE Destroy(w, b)
  <2>1. PICK kid \in Items : kid = Kid(b) /\ IsKid(kid, b)
    BY <1>1, <1>7, KidIsKid DEF Destroy
  <2>2. kid # b /\ Spawned(kid)
    BY <1>1, <2>1, CallsTyped DEF KidInv, Live, Spawned
  <2> DEFINE pc == IF frame[b].thrown THEN "destroy" ELSE "join"
  <2>3. /\ UNCHANGED <<scenario, stack, stolen>> /\ st' = [st EXCEPT ![kid] = "gone"]
        /\ frame' = [frame EXCEPT ![b] = [frame[b] EXCEPT !.kids = Front(frame[b].kids), !.pc = pc]]
    BY <1>7, <2>1 DEF Destroy
  <2>4. pc # "split"
    OBVIOUS
  <2> HIDE DEF pc
  <2>5. frame'[b].pc # "split" /\ \A c \in Items : c # b => frame'[c] = frame[c]
    BY <1>1, <1>2, <2>3, <2>4 DEF Types, FrameType
  <2>6. st'[kid] = "gone" /\ \A c \in Items : c # kid => st'[c] = st[c]
    BY <1>1, <2>3 DEF Types
  <2> QED
    BY <1>2, <2>2, <2>3, <2>5, <2>6 DEF Spawned
<1>8. CASE Finish(w, b)
  <2>1. /\ UNCHANGED <<scenario, stack, stolen>>
        /\ st' = [st EXCEPT ![b] = IF frame[b].thrown THEN "canceled" ELSE "completed"]
        /\ frame' = [frame EXCEPT ![b] = [frame[b] EXCEPT !.pc = "finished"]]
    BY <1>8 DEF Finish
  <2>2. frame'[b].pc # "split" /\ \A c \in Items : c # b => frame'[c] = frame[c]
    BY <1>1, <1>2, <2>1 DEF Types, FrameType
  <2>3. st'[b] \in {"canceled", "completed"} /\ \A c \in Items : c # b => st'[c] = st[c]
    BY <1>1, <2>1 DEF Types
  <2> QED
    BY <1>2, <2>1, <2>2, <2>3 DEF Spawned
<1> QED
  BY <1>5, <1>6, <1>7, <1>8

LEMMA StillStolen ==
    ASSUME StolenInv, UNCHANGED stolen,
           \A c \in Items : c \in Roots \cup stolen /\ st'[c] \in {"none", "queued"} =>
              st'[c] = st[c] /\ frame'[c].part = frame[c].part
    PROVE  StolenInv'
<1>1. Roots \subseteq Items
  BY CallsTyped DEF Roots
<1> QED
  BY <1>1 DEF StolenInv

LEMMA SeatStep == ParInv /\ SeatInv /\ [ParStep]_parVars => SeatInv'
<1> SUFFICES ASSUME ParInv, SeatInv, [ParStep]_parVars PROVE SeatInv'
  OBVIOUS
<1>0. Types /\ StackInv /\ StateInv /\ StolenInv
  BY DEF ParInv, SeatInv
<1>s. ASSUME StolenInv', UNCHANGED scenario,
             \A g : kind = "auto" /\ Seated(g) => \E new : Seated(new)'
      PROVE  SeatInv'
  <2>1. kind' = kind
    BY <1>s DEF kind
  <2> QED
    BY <1>s, <2>1 DEF SeatInv
<1>1. CASE UNCHANGED parVars
  <2>1. StolenInv'
    BY <1>0, <1>1 DEF StolenInv, parVars
  <2>2. ASSUME NEW g, Seated(g) PROVE Seated(g)'
    BY <1>1, <2>2, StillSeated DEF parVars, Spawned, On
  <2> QED
    BY <1>1, <1>s, <2>1, <2>2 DEF parVars
<1>2. ASSUME NEW w \in Workers, NEW b \in Items, Begin(w, b) PROVE SeatInv'
  <2>1. /\ st[b] = "queued" /\ UNCHANGED <<scenario, frame>> /\ stolen' \subseteq stolen \cup {b}
        /\ st'[b] = "running" /\ \A c \in Items : c # b => st'[c] = st[c]
    BY <1>0, <1>2 DEF Begin, Types
  <2>2. Roots \subseteq Items
    BY CallsTyped DEF Roots
  <2>3. StolenInv'
    BY <1>0, <2>1, <2>2 DEF StolenInv
  <2> QED
    BY <1>0, <1>2, <1>s, <2>1, <2>3, BeginSeated
<1>3. ASSUME NEW w \in Workers, NEW b \in Items, Fork(w, b) PROVE SeatInv'
  <2>1. Spawned(b) /\ frame[b].pc = "split" /\ frame[b] \in FrameType /\ st[b] = "running"
    BY <1>3, InStack DEF Fork
  <2>2. UNCHANGED <<scenario, stack, stolen>>
    BY <1>3 DEF Fork
  <2>3. CASE Length(Split(frame[b].part, w).rest) = 0
    <3> DEFINE own == Split(frame[b].part, w).own
    <3>1. frame' = [frame EXCEPT ![b] = [frame[b] EXCEPT !.pc = "work", !.part = own]] /\ UNCHANGED st
      BY <1>3, <2>3 DEF Fork
    <3> HIDE DEF own
    <3>2. frame'[b].pc = "work" /\ \A c \in Items : c # b => frame'[c] = frame[c]
      BY <1>0, <2>1, <3>1 DEF Types, FrameType
    <3>3. StolenInv'
      BY <1>0, <2>1, <2>2, <3>1, <3>2, StillStolen
    <3>4. ASSUME NEW g, Seated(g) PROVE Seated(g)'
      <4>1. /\ \A c \in Items : Spawned(c)' <=> Spawned(c)
            /\ \A c \in Items : \A v \in Workers : On(v, c)' <=> On(v, c)
        BY <2>2, <3>1 DEF Spawned, On
      <4> QED
        BY <2>2, <3>2, <3>4, <4>1, StillSeated
    <3> QED
      BY <1>s, <2>2, <3>3, <3>4
  <2>4. CASE Length(Split(frame[b].part, w).rest) # 0
    <3>1. PICK at \in Items :
             /\ st[at] = "none" /\ at \notin Roots /\ \A c \in Items : c # at => st'[c] = st[c]
             /\ \A c \in Items : c # b /\ c # at => frame'[c] = frame[c]
      BY <1>3, <2>4, Spawning
    <3>2. at \notin stolen
      BY <1>0, <3>1 DEF StolenInv
    <3>3. StolenInv'
      BY <1>0, <2>1, <2>2, <3>1, <3>2, StillStolen
    <3> QED
      BY <1>3, <1>s, <2>2, <2>4, <3>3, SpawnSeated
  <2> QED
    BY <2>3, <2>4
<1>4. ASSUME NEW w \in Workers, NEW b \in Items,
             Work(w, b) \/ Join(w, b) \/ Destroy(w, b) \/ Finish(w, b)
      PROVE  SeatInv'
  <2>1. /\ UNCHANGED <<scenario, stack, stolen>>
        /\ \A c \in Items : Spawned(c)' <=> Spawned(c)
        /\ \A c \in Items : c # b => frame'[c] = frame[c]
        /\ frame'[b].pc # "split" /\ st'[b] \notin {"none", "queued"}
        /\ \A c \in Items : st'[c] \in {"none", "queued"} => st'[c] = st[c]
    BY <1>4, Steps
  <2>2. StolenInv'
    BY <1>0, <2>1, StillStolen
  <2>3. ASSUME NEW g, Seated(g) PROVE Seated(g)'
    <3>1. \A c \in Items : \A v \in Workers : On(v, c)' <=> On(v, c)
      BY <2>1 DEF On
    <3> QED
      BY <2>1, <2>3, <3>1, StillSeated
  <2> QED
    BY <1>s, <2>1, <2>2, <2>3
<1>5. ASSUME NEW w \in Workers, NEW b \in Items, Release(w, b) PROVE SeatInv'
  <2>1. /\ stack[w] \in Seq(Items) /\ stack[w] # <<>> /\ Last(stack[w]) = b /\ frame[b].pc = "finished"
    BY <1>5, InStack DEF Release
  <2>2. /\ stack'[w] = Front(stack[w]) /\ \A v \in Workers : v # w => stack'[v] = stack[v]
        /\ UNCHANGED <<scenario, st, frame, stolen>>
    BY <1>0, <1>5 DEF Release, Types
  <2>3. StolenInv'
    BY <1>0, <2>2 DEF StolenInv
  <2>4. \A c \in Items : c # b => \A v \in Workers : On(v, c)' <=> On(v, c)
    <3>1. ToSet(stack[w]) = ToSet(stack'[w]) \cup {b}
      BY <2>1, <2>2, FrontSet
    <3> QED
      BY <2>2, <3>1 DEF On
  <2>5. ASSUME NEW g, Seated(g) PROVE Seated(g)'
    <3>1. \A c \in Items : Spawned(c)' <=> Spawned(c)
      BY <2>2 DEF Spawned
    <3> QED
      BY <2>1, <2>2, <2>4, <2>5, <3>1, StillSeated
  <2> QED
    BY <1>s, <2>2, <2>3, <2>5
<1> QED
  BY <1>1, <1>2, <1>3, <1>4, <1>5 DEF ParStep

-----------------------------------------------------------------------------
\* Each part but the root's has a seat of its own.
LEMMA Bounded == ParInv /\ SeatInv => ChunksBounded
<1> SUFFICES ASSUME ParInv, SeatInv, kind = "auto", NEW k \in Calls
             PROVE  Cardinality(Parts(k)) <= Hardware + Cardinality(stolen \cap RangeOf(k)) * (Hardware - 1)
  BY DEF ChunksBounded
<1>1. PICK g : Seated(g)
  BY DEF SeatInv
<1> DEFINE others == Parts(k) \ {Root(k)}
           thefts == stolen \cap RangeOf(k)
           sources == thefts \cup {Root(k)}
           seats == 1 .. Hardware - 1
           taken == [b \in others |-> <<g[b].of, g[b].nr>>]
<1>2. /\ RangeOf(k) \subseteq Items /\ Root(k) \in Items /\ Hardware \in Nat \ {0}
      /\ Hardware - 1 \in Nat /\ \A b \in Roots \cap RangeOf(k) : b = Root(k)
  BY ParallelAssumption, CallsTyped DEF Roots
<1>3. ASSUME NEW b \in others
      PROVE  /\ b \in Items /\ b \in RangeOf(k) /\ Spawned(b) /\ b \notin Roots
             /\ g[b].of \in sources /\ g[b].nr \in seats
  <2>1. b \in Items /\ b \in RangeOf(k) /\ Spawned(b) /\ b \notin Roots
    BY <1>2 DEF Parts, Spawned
  <2>2. /\ IsSource(g[b].of, b) /\ g[b].nr <= Hardware - 1 /\ 1 <= g[b].nr
        /\ g[b].of \in Items /\ g[b].nr \in Int
    BY <1>1, <2>1 DEF Seated, SeatType
  <2>3. g[b].of \in RangeOf(k)
    BY <2>1, <2>2, SameCallFacts DEF IsSource
  <2>4. g[b].of \in sources
    BY <1>2, <2>2, <2>3 DEF IsSource
  <2> QED
    BY <1>2, <2>1, <2>2, <2>4
<1>4. /\ IsFiniteSet(seats) /\ Cardinality(seats) = Hardware - 1
  <2>1. 1 \in Int /\ Hardware - 1 \in Int
    BY <1>2
  <2>2. IsFiniteSet(seats) /\ Cardinality(seats) = IF 1 > Hardware - 1 THEN 0 ELSE (Hardware - 1) - 1 + 1
    BY <2>1, FS_Interval
  <2> HIDE DEF seats
  <2> QED
    BY <1>2, <2>2
<1>5. IsFiniteSet(thefts)
  <2>1. IsFiniteSet(RangeOf(k))
    <3>1. Ranges[k][1] \in Int /\ Ranges[k][2] \in Int
      BY CallsTyped
    <3> QED
      BY <3>1, FS_Interval DEF RangeOf
  <2> QED
    BY <2>1, FS_Intersection
<1>6. IsFiniteSet(sources) /\ Cardinality(sources) <= Cardinality(thefts) + 1 /\ Cardinality(sources) \in Nat
      /\ Cardinality(thefts) \in Nat
  BY <1>5, FS_AddElement, FS_CardinalityType
<1>7. taken \in Injection(others, sources \X seats)
  <2> HIDE DEF others, sources, seats
  <2>1. taken \in [others -> sources \X seats]
    BY <1>3
  <2>2. ASSUME NEW b \in others, NEW c \in others, taken[b] = taken[c] PROVE b = c
    <3>1. SameSeat(g, b, c)
      BY <2>2 DEF SameSeat
    <3> QED
      BY <1>1, <1>3, <3>1 DEF Seated
  <2> QED
    BY <2>1, <2>2 DEF Injection, IsInjective
<1> HIDE DEF others, thefts, sources, seats, taken
<1>8. /\ IsFiniteSet(sources \X seats)
      /\ Cardinality(sources \X seats) = Cardinality(sources) * (Hardware - 1)
  BY <1>4, <1>6, FS_Product
<1>9. IsFiniteSet(others) /\ Cardinality(others) <= Cardinality(sources) * (Hardware - 1)
  BY <1>7, <1>8, FS_Injection
<1>10. /\ Cardinality(Parts(k)) <= Cardinality(others) + 1
       /\ Cardinality(others) \in Nat /\ Cardinality(Parts(k)) \in Nat
  <2>1. Root(k) \in Parts(k)
    BY CallsTyped DEF Parts, ParInv, PartInv
  <2>2. Parts(k) = others \cup {Root(k)}
    BY <2>1 DEF others
  <2>3. Cardinality(others) \in Nat
    BY <1>9, FS_CardinalityType
  <2>4. Cardinality(Parts(k)) = IF Root(k) \in others THEN Cardinality(others) ELSE Cardinality(others) + 1
    BY <1>9, <2>2, FS_AddElement
  <2> QED
    BY <2>3, <2>4
<1>11. Cardinality(sources) * (Hardware - 1) <= (Cardinality(thefts) + 1) * (Hardware - 1)
  <2>1. \A x, y, z \in Nat : x <= y => x * z <= y * z
    OBVIOUS
  <2>2. Cardinality(thefts) + 1 \in Nat
    BY <1>6
  <2> QED
    BY <1>2, <1>6, <2>1, <2>2
<1>12. Cardinality(Parts(k)) <= Hardware + Cardinality(thefts) * (Hardware - 1)
  <2>1. \A x, z \in Nat : (x + 1) * z = x * z + z /\ x * z \in Nat
    OBVIOUS
  <2>2. (Cardinality(thefts) + 1) * (Hardware - 1) = Cardinality(thefts) * (Hardware - 1) + (Hardware - 1)
        /\ Cardinality(thefts) * (Hardware - 1) \in Nat
    BY <1>2, <1>6, <2>1
  <2>3. Cardinality(sources) * (Hardware - 1) \in Nat
    BY <1>2, <1>6, <2>1
  <2> QED
    BY <1>2, <1>9, <1>10, <1>11, <2>2, <2>3
<1> QED
  BY <1>12 DEF thefts

\* A call with auto_partitioner is split into no more chunks than there are
\* threads, plus one for each other thread whenever a chunk is stolen: what is
\* split off takes a share of the threads with it, and only a steal gives new ones.
THEOREM ChunksFollowSteals == Spec => []ChunksBounded
<1>1. Init => SeatInv
  <2> SUFFICES ASSUME Init PROVE SeatInv
    OBVIOUS
  <2>1. ParInit /\ ParInv
    BY ParInitInv DEF Init
  <2>2. stolen = {}
    BY DEF Init, ParInit
  <2>3. ASSUME NEW b \in Roots PROVE frame[b].part.thread = None
    <3> DEFINE call == CHOOSE k \in Calls : Root(k) = b
    <3>1. frame[b] = Frame(Whole(call))
      BY CallsTyped DEF Init, ParInit, Roots
    <3> QED
      BY <3>1 DEF Frame, Whole
  <2> QED
    BY <2>1, <2>2, <2>3, InitSeated DEF SeatInv, StolenInv
<1>2. ParInv /\ SeatInv /\ [Next]_vars => SeatInv'
  BY StepsOfBoth, SeatStep
<1>3. ParInv /\ SeatInv => ChunksBounded
  BY Bounded
<1> QED
  BY <1>1, <1>2, <1>3, CallsConsistent, PTL DEF Spec

-----------------------------------------------------------------------------
(* when_all and when_any, with calls as their inputs.                       *)

THEOREM CombinedConsistent == Spec => []IInv
<1>1. Init => IInv
  BY InitInv DEF Init
<1>2. IInv /\ [Next]_vars => IInv'
  BY StepsOfBoth, NextInv
<1> QED
  BY <1>1, <1>2, PTL DEF Spec

\* Also while the inputs are running calls that finish at any time, the shared
\* state is deleted with its last reference and not before.
THEOREM DeletedInProgram == Spec => []DeletedWithLastRef
<1>1. IInv => DeletedWithLastRef
  BY DEF IInv
<1> QED
  BY <1>1, CombinedConsistent, PTL

\* ... and the combined task gets what When says.
THEOREM CombinedInProgram == Spec => []CombinedResult
<1>1. IInv => CombinedResult
  BY ResultInv
<1> QED
  BY <1>1, CombinedConsistent, PTL

=============================================================================
