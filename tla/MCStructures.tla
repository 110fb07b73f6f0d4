---------------------------- MODULE MCStructures ----------------------------
(***************************************************************************)
(* The structures of the library that have nothing to do with each other:  *)
(* the lists of lights and the rasterizer that fills them, the             *)
(* continuations of a task, and the containers.  What one does is the same *)
(* whatever the others do, so that a behaviour is about one of them, which *)
(* part names, and the others rest in an initial state.                    *)
(***************************************************************************)
EXTENDS LightMap, MCRasterizer, EventTask, Containers

VARIABLE part

containerVars == <<poolVars, queueVars>>
structureVars == <<part, vars, drawVars, eventVars, containerVars>>

Lists == part = "lists"
Light == part = "light"
Event == part = "event"
InContainers == part = "containers"

StructuresInit ==
    /\ part \in {"lists", "light", "event", "containers"}
    /\ Init /\ DrawInit /\ EventInit /\ BothInit
    /\ Light \/ light = [x |-> 0, y |-> 0, r |-> 0]

\* Deadlock is checked for all but the containers, where it is the end of the
\* program at an overrun.
StructuresNext ==
    /\ \/ Lists /\ Next /\ UNCHANGED <<drawVars, eventVars, containerVars>>
       \/ Light /\ DrawNext /\ UNCHANGED <<vars, eventVars, containerVars>>
       \/ Event /\ EventNext /\ UNCHANGED <<vars, drawVars, containerVars>>
       \/ InContainers /\ BothNext /\ UNCHANGED <<vars, drawVars, eventVars>>
       \/ InContainers /\ overrun /\ UNCHANGED structureVars
    /\ UNCHANGED part

\* The fairness of FairSpec and of EventFairSpec
StructuresSpec ==
    /\ StructuresInit /\ [][StructuresNext]_structureVars
    /\ WF_vars(Lists /\ (Fork \/ StartBuild \/ BuildTile \/ EndFrame))
    /\ \A l \in Lights : WF_vars(Lists /\ Item(l))
    /\ WF_eventVars(Event /\ (Destroy \/ Release))
    /\ \A s \in Finishers : WF_eventVars(Event /\ FinishStep(s))
    /\ \A c \in Conts : WF_eventVars(Event /\ AddStep(c)) /\ WF_eventVars(Event /\ RunCont(c))
=============================================================================
