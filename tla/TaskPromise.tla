---------------------------- MODULE TaskPromise ----------------------------
(***************************************************************************)
(* What a task promises to those who hang continuations on it: it gets one *)
(* outcome, once, and then each continuation is handled once.  One that    *)
(* takes the task itself is always run; one that takes the value is run if *)
(* there is one and canceled if there is an exception.                     *)
(***************************************************************************)
CONSTANTS Conts,  \* the continuations
          Always  \* those that take the task (always_cont)

VARIABLES outcome,  \* "none", "value" or "exception"
          adding,   \* adding[c]: "not" yet; "early", since before the outcome; "over"
          handled   \* handled[c]: "no", "run" or "canceled"

promiseVars == <<outcome, adding, handled>>

Init ==
    /\ outcome = "none"
    /\ adding = [c \in Conts |-> "not"]
    /\ handled = [c \in Conts |-> "no"]

Finish ==
    /\ outcome = "none"
    /\ outcome' \in {"value", "exception"}
    /\ UNCHANGED <<adding, handled>>

\* then() finds out whether there is an outcome.
Begin(c) ==
    /\ adding[c] = "not"
    /\ adding' = [adding EXCEPT ![c] = IF outcome = "none" THEN "early" ELSE "over"]
    /\ UNCHANGED <<outcome, handled>>

\* The continuation is in the task's list.
Accept(c) ==
    /\ adding[c] = "early"
    /\ adding' = [adding EXCEPT ![c] = "over"]
    /\ UNCHANGED <<outcome, handled>>

HandledAs(c, how) ==
    /\ adding[c] # "not" /\ handled[c] = "no"
    /\ handled' = [handled EXCEPT ![c] = how]
    /\ adding' = [adding EXCEPT ![c] = "over"]
    /\ UNCHANGED outcome

Run(c) ==
    /\ outcome = "value" \/ (outcome = "exception" /\ c \in Always)
    /\ HandledAs(c, "run")

Cancel(c) ==
    /\ outcome = "exception" /\ c \notin Always
    /\ HandledAs(c, "canceled")

Next == Finish \/ \E c \in Conts : Begin(c) \/ Accept(c) \/ Run(c) \/ Cancel(c)

Spec == Init /\ [][Next]_promiseVars

-----------------------------------------------------------------------------
(* The weaker promise of a task that may break the one above towards a      *)
(* continuation that is just being added when the exception comes.          *)

Overtaken(c) ==
    /\ outcome = "exception" /\ c \notin Always
    /\ adding[c] = "early"
    /\ HandledAs(c, "run")

RacyNext == Next \/ \E c \in Conts : Overtaken(c)

RacySpec == Init /\ [][RacyNext]_promiseVars
=============================================================================
