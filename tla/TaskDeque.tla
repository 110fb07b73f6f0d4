----------------------------- MODULE TaskDeque -----------------------------
(***************************************************************************)
(* What a work stealing queue promises: the owner pushes fresh tasks at    *)
(* the bottom and takes them from there, others take them from the top,    *)
(* and every task leaves the queue once.                                   *)
(***************************************************************************)
EXTENDS Naturals, SequencesExt

CONSTANT Tasks

VARIABLES deque,  \* the queued tasks, top first
          taken   \* taken[x]: how often task x was handed out

Init == deque = <<>> /\ taken = [x \in Tasks |-> 0]

Push == \E x \in Tasks :
    /\ taken[x] = 0
    /\ ~ Contains(deque, x)
    /\ deque' = Append(deque, x)
    /\ UNCHANGED taken

TakeBottom ==
    /\ deque # <<>>
    /\ deque' = Front(deque)
    /\ taken' = [taken EXCEPT ![Last(deque)] = @ + 1]

TakeTop ==
    /\ deque # <<>>
    /\ deque' = Tail(deque)
    /\ taken' = [taken EXCEPT ![Head(deque)] = @ + 1]

Next == Push \/ TakeBottom \/ TakeTop

Spec == Init /\ [][Next]_<<deque, taken>>
=============================================================================
