------------------------------ MODULE LightMap ------------------------------
(***************************************************************************)
(* The tile light lists of STLLLightListMap while one STLLRender draws     *)
(* frames.  A frame is Clear, then Render: the items of a parallel_for     *)
(* (one per light) call AsyncList::Add on the tiles their light covers,    *)
(* concurrently and without a lock, and after the join BuildTexture packs  *)
(* the lists into the two textures.                                        *)
(*                                                                         *)
(* A step is one atomic operation of the code: the fetch_add on m_pos, the *)
(* store into the reserved slot, the m_pos-- of a rejected Add, the        *)
(* fetch_add on m_count.  The geometry (which tiles a light covers) is an  *)
(* arbitrary input of every frame; Rasterizer computes it.                 *)
(***************************************************************************)
EXTENDS Integers, FiniteSets

CONSTANTS NumTiles,   \* m_length = m_width * m_height
          Capacity,   \* AsyncList::m_size, slots of every m_buffer
          Lights,     \* the indices of the lights passed to Render
          Junk        \* content of memory that nothing wrote yet

ASSUME ConstantsAssumption ==
    /\ NumTiles \in Nat
    /\ Capacity \in Nat
    /\ IsFiniteSet(Lights)
    /\ Junk \notin Lights

Tiles == 0 .. NumTiles - 1
Slots == 0 .. Capacity - 1

VARIABLES
    phase,      \* where the rendering thread is
    pos,        \* pos[t]: m_pos of tile t's AsyncList
    buffer,     \* buffer[t][i]: m_buffer of tile t's AsyncList
    count,      \* m_count
    cover,      \* cover[l]: the tiles light l covers in this frame
    pc,         \* pc[l]: where the parallel_for item of light l is
    todo,       \* todo[l]: the tiles item l has not finished with
    tile, slot, \* tile[l], slot[l]: the tile item l works on, `old' of its Add
    alloc,      \* m_alloc, the length of m_lightsTex
    hasTex,     \* m_lightsTex is not NULL
    lightsTex,  \* m_lightsTex
    indices,    \* m_indicsTex
    bTile, bPos \* `i' and `pos' of BuildTexture's loop

listVars == <<pos, buffer, count>>
itemVars == <<cover, pc, todo, tile, slot>>
texVars  == <<alloc, hasTex, lightsTex, indices, bTile, bPos>>
vars     == <<phase, listVars, itemVars, texVars>>

-----------------------------------------------------------------------------
(* Plausible mistakes: variants of the actions below that must break the    *)
(* properties (each has the parameters of the action it stands in for).     *)

\* The position is read with load() instead of claimed with fetch_add.
ReserveUnclaimed(l) ==
    /\ phase = "draw"
    /\ pc[l] = "next"
    /\ \E t \in todo[l] :
        /\ \A u \in todo[l] : t <= u
        /\ tile' = [tile EXCEPT ![l] = t]
        /\ slot' = [slot EXCEPT ![l] = pos[t]]
        /\ pc' = [pc EXCEPT ![l] = IF pos[t] < Capacity THEN "store" ELSE "undo"]
    /\ UNCHANGED <<phase, pos, buffer, count, cover, todo, texVars>>

\* How every rejected Add leaves, whatever it did to the counters.
Rejected(l) ==
    /\ pc[l] = "undo"
    /\ todo' = [todo EXCEPT ![l] = @ \ {tile[l]}]
    /\ tile' = [tile EXCEPT ![l] = 0]
    /\ slot' = [slot EXCEPT ![l] = 0]
    /\ pc' = [pc EXCEPT ![l] = "next"]
    /\ UNCHANGED <<phase, buffer, cover, texVars>>

\* The rejected Add forgets to roll m_pos back.
UndoForgotten(l) == Rejected(l) /\ UNCHANGED <<pos, count>>

\* It stores the capacity instead of decrementing.
UndoToSize(l) ==
    /\ Rejected(l)
    /\ pos' = [pos EXCEPT ![tile[l]] = Capacity]
    /\ UNCHANGED count

\* It reports -1 instead of 0, which AddLine adds to m_count.
UndoCountsDown(l) ==
    /\ Rejected(l)
    /\ pos' = [pos EXCEPT ![tile[l]] = @ - 1]
    /\ count' = count - 1

\* It is tried again until the tile has room.
UndoRetries(l) ==
    /\ pc[l] = "undo"
    /\ pos' = [pos EXCEPT ![tile[l]] = @ - 1]
    /\ pc' = [pc EXCEPT ![l] = "next"]
    /\ UNCHANGED <<phase, buffer, count, cover, todo, tile, slot, texVars>>

\* The else of Add is missing: an accepted Add rolls m_pos back as well.
TallyRollsBack(l) ==
    /\ pc[l] = "count"
    /\ count' = count + 1
    /\ pos' = [pos EXCEPT ![tile[l]] = @ - 1]
    /\ todo' = [todo EXCEPT ![l] = @ \ {tile[l]}]
    /\ tile' = [tile EXCEPT ![l] = 0]
    /\ slot' = [slot EXCEPT ![l] = 0]
    /\ pc' = [pc EXCEPT ![l] = "next"]
    /\ UNCHANGED <<phase, buffer, cover, texVars>>

\* The first texture is kept for ever.
StartBuildOnce ==
    /\ phase = "draw"
    /\ \A l \in Lights : todo[l] = {}
    /\ phase' = "build"
    /\ bTile' = 0
    /\ bPos' = 0
    /\ IF ~hasTex
       THEN /\ hasTex' = TRUE
            /\ alloc' = count
            /\ lightsTex' = [k \in 0 .. count - 1 |-> Junk]
       ELSE UNCHANGED <<hasTex, alloc, lightsTex>>
    /\ UNCHANGED <<listVars, itemVars, indices>>

\* `pos += count' is missing.
BuildTileInPlace ==
    /\ phase = "build"
    /\ bTile < NumTiles
    /\ indices' = [indices EXCEPT ![bTile] =
                     [offset |-> bPos, count |-> pos[bTile]]]
    /\ lightsTex' = [k \in 0 .. alloc - 1 |->
                       IF k \in bPos .. bPos + pos[bTile] - 1
                       THEN buffer[bTile][k - bPos]
                       ELSE lightsTex[k]]
    /\ bTile' = bTile + 1
    /\ UNCHANGED <<phase, listVars, itemVars, alloc, hasTex, bPos>>

-----------------------------------------------------------------------------
\* The constructor: m_pos and m_alloc are 0, the buffers hold anything.
Init ==
    /\ phase = "ready"
    /\ pos = [t \in Tiles |-> 0]
    /\ buffer = [t \in Tiles |-> [i \in Slots |-> Junk]]
    /\ count = 0
    /\ cover = [l \in Lights |-> {}]
    /\ pc = [l \in Lights |-> "next"]
    /\ todo = [l \in Lights |-> {}]
    /\ tile = [l \in Lights |-> 0]
    /\ slot = [l \in Lights |-> 0]
    /\ alloc = 0
    /\ hasTex = FALSE
    /\ lightsTex = [k \in 0 .. alloc - 1 |-> Junk]
    /\ indices = [t \in Tiles |-> [offset |-> 0, count |-> 0]]
    /\ bTile = 0
    /\ bPos = 0

\* STLLRender::Clear resets the counters; the buffers keep the last frame.
Clear ==
    /\ phase = "ready"
    /\ phase' = "cleared"
    /\ pos' = [t \in Tiles |-> 0]
    /\ count' = 0
    /\ UNCHANGED <<buffer, itemVars, texVars>>

\* Render hands one item per light to parallel_for.
Fork ==
    /\ phase = "cleared"
    /\ phase' = "draw"
    /\ \E c \in [Lights -> SUBSET Tiles] : cover' = c /\ todo' = c
    /\ UNCHANGED <<listVars, pc, tile, slot, texVars>>

-----------------------------------------------------------------------------
(* The parallel_for item of light l.                                       *)

\* AddLine visits rows and columns upwards: the lowest tile is next.
\* `int old = m_pos.fetch_add(1)', then the test against m_size.
Reserve(l) ==
    /\ phase = "draw"
    /\ pc[l] = "next"
    /\ \E t \in todo[l] :
        /\ \A u \in todo[l] : t <= u
        /\ tile' = [tile EXCEPT ![l] = t]
        /\ slot' = [slot EXCEPT ![l] = pos[t]]
        /\ pos' = [pos EXCEPT ![t] = @ + 1]
        /\ pc' = [pc EXCEPT ![l] = IF pos[t] < Capacity THEN "store" ELSE "undo"]
    /\ UNCHANGED <<phase, buffer, count, cover, todo, texVars>>

\* `m_buffer[old] = val'
Store(l) ==
    /\ pc[l] = "store"
    /\ buffer' = [buffer EXCEPT ![tile[l]][slot[l]] = l]
    /\ pc' = [pc EXCEPT ![l] = "count"]
    /\ UNCHANGED <<phase, pos, count, cover, todo, tile, slot, texVars>>

\* The Add returned: its locals die, the item goes on to its next tile.
AddDone(l) ==
    /\ todo' = [todo EXCEPT ![l] = @ \ {tile[l]}]
    /\ tile' = [tile EXCEPT ![l] = 0]
    /\ slot' = [slot EXCEPT ![l] = 0]
    /\ pc' = [pc EXCEPT ![l] = "next"]

\* `m_count += 1' after an Add that returned 1
Tally(l) ==
    /\ pc[l] = "count"
    /\ count' = count + 1
    /\ AddDone(l)
    /\ UNCHANGED <<phase, pos, buffer, cover, texVars>>

\* `m_pos--' of a rejected Add; the `m_count += 0' that follows is no step
Undo(l) ==
    /\ pc[l] = "undo"
    /\ pos' = [pos EXCEPT ![tile[l]] = @ - 1]
    /\ AddDone(l)
    /\ UNCHANGED <<phase, buffer, count, cover, texVars>>

Item(l) == Reserve(l) \/ Store(l) \/ Tally(l) \/ Undo(l)

-----------------------------------------------------------------------------
\* parallel_for returned; BuildTexture makes room if the texture is too short
\* (`>=': also when it fits exactly).
StartBuild ==
    /\ phase = "draw"
    /\ \A l \in Lights : todo[l] = {}
    /\ phase' = "build"
    /\ bTile' = 0
    /\ bPos' = 0
    /\ IF ~hasTex \/ count >= alloc
       THEN /\ hasTex' = TRUE
            /\ alloc' = count
            /\ lightsTex' = [k \in 0 .. count - 1 |-> Junk]
       ELSE UNCHANGED <<hasTex, alloc, lightsTex>>
    /\ UNCHANGED <<listVars, itemVars, indices>>

\* One iteration of BuildTexture's outer loop.
BuildTile ==
    /\ phase = "build"
    /\ bTile < NumTiles
    /\ indices' = [indices EXCEPT ![bTile] =
                     [offset |-> bPos, count |-> pos[bTile]]]
    /\ lightsTex' = [k \in 0 .. alloc - 1 |->
                       IF k \in bPos .. bPos + pos[bTile] - 1
                       THEN buffer[bTile][k - bPos]
                       ELSE lightsTex[k]]
    /\ bPos' = bPos + pos[bTile]
    /\ bTile' = bTile + 1
    /\ UNCHANGED <<phase, listVars, itemVars, alloc, hasTex>>

\* BuildTexture and Render return, and with them what is local to the frame.
EndFrame ==
    /\ phase = "build"
    /\ bTile = NumTiles
    /\ phase' = "ready"
    /\ bTile' = 0
    /\ bPos' = 0
    /\ cover' = [l \in Lights |-> {}]
    /\ UNCHANGED <<listVars, pc, todo, tile, slot>>
    /\ UNCHANGED <<alloc, hasTex, lightsTex, indices>>

Main == Clear \/ Fork \/ StartBuild \/ BuildTile \/ EndFrame

Next == Main \/ \E l \in Lights : Item(l)

Spec == Init /\ [][Next]_vars

\* Threads that can run do run; no step of an item waits for another item.
\* The rendering thread need not begin a frame: Clear is not fair.
Fairness ==
    /\ WF_vars(Fork \/ StartBuild \/ BuildTile \/ EndFrame)
    /\ \A l \in Lights : WF_vars(Item(l))

FairSpec == Spec /\ Fairness

-----------------------------------------------------------------------------
TypeOK ==
    /\ phase \in {"ready", "cleared", "draw", "build"}
    /\ pos \in [Tiles -> Int]
    /\ buffer \in [Tiles -> [Slots -> Lights \cup {Junk}]]
    /\ count \in Nat
    /\ cover \in [Lights -> SUBSET Tiles]
    /\ pc \in [Lights -> {"next", "store", "count", "undo"}]
    /\ todo \in [Lights -> SUBSET Tiles]
    /\ tile \in [Lights -> Nat]
    /\ slot \in [Lights -> Int]
    /\ alloc \in Nat
    /\ hasTex \in BOOLEAN
    /\ lightsTex \in [0 .. alloc - 1 -> Lights \cup {Junk}]
    /\ indices \in [Tiles -> [offset : Int, count : Int]]
    /\ bTile \in 0 .. NumTiles
    /\ bPos \in Int

\* The lights in the list of tile t whose Add there is over: in a slot below
\* m_pos that no other Add is about to write.
Listed(t) ==
    {l \in Lights :
        /\ t \in cover[l] \ todo[l]
        /\ \E i \in Slots :
              /\ i < pos[t]
              /\ buffer[t][i] = l
              /\ \A m \in Lights :
                    ~ (pc[m] = "store" /\ tile[m] = t /\ slot[m] = i)}

\* No two concurrent Adds (STLLRasterizer.h AsyncList::Add) own the same slot
\* of a tile, whatever rollbacks of m_pos happen in between.
SlotsExclusive ==
    \A l, m \in Lights :
        /\ l # m
        /\ pc[l] \in {"store", "count"} /\ pc[m] \in {"store", "count"}
        /\ tile[l] = tile[m]
        => slot[l] # slot[m]

\* What BuildTexture finds once parallel_for has joined: every list is within
\* its buffer, holds each light at most once and only lights of this frame
\* that cover the tile (no leftover of an earlier frame, no hole), and a light
\* is missing only from a tile whose list is full.
JoinedLists ==
    phase = "build" =>
        \A t \in Tiles :
            /\ pos[t] \in 0 .. Capacity
            /\ \A i \in 0 .. pos[t] - 1 :
                  /\ buffer[t][i] \in Lights
                  /\ t \in cover[buffer[t][i]]
                  /\ \A j \in 0 .. pos[t] - 1 :
                        i # j => buffer[t][i] # buffer[t][j]
            /\ pos[t] < Capacity =>
                  \A l \in Lights : t \in cover[l] =>
                      \E i \in 0 .. pos[t] - 1 : buffer[t][i] = l

\* The counter m_count, kept apart from the lists, is large enough for every
\* write of BuildTexture to stay inside m_lightsTex, also when the texture of
\* an earlier frame is reused.
BuildInBounds ==
    phase = "build" /\ bTile < NumTiles =>
        /\ pos[bTile] \in 0 .. Capacity
        /\ bPos + pos[bTile] <= alloc

\* Between frames the index texture cuts the light texture into consecutive
\* slices, one per tile, that hold the tile's list, and GetLightCount() is
\* where the last one ends.
TexturesMatchLists ==
    phase = "ready" /\ hasTex =>
        \A t \in Tiles :
            /\ indices[t].count = pos[t]
            /\ indices[t].offset =
                  IF t = 0 THEN 0 ELSE indices[t-1].offset + indices[t-1].count
            /\ t = NumTiles - 1 => indices[t].offset + indices[t].count = count
            /\ \A i \in 0 .. pos[t] - 1 :
                  lightsTex[indices[t].offset + i] = buffer[t][i]

\* A light that an Add has put into the list of a tile, and that has moved on,
\* stays in it to the end of the frame: no rollback of m_pos cuts it off and
\* no other Add writes over it.
ListedStays ==
    [][phase' # "ready" => \A t \in Tiles : Listed(t) \subseteq Listed(t)']_vars

\* Every frame that begins is rendered to its end: the lock-free Adds cannot
\* keep each other, or the join, from finishing.
FrameCompletes == phase = "cleared" ~> phase = "ready"

-----------------------------------------------------------------------------
(* The inductive invariant behind SlotsExclusive, JoinedLists and           *)
(* ListedStays (LightMapProofs).                                       *)

\* The items about to roll back the m_pos of tile t, and m_pos without them.
Rolling(t) == {l \in Lights : pc[l] = "undo" /\ tile[l] = t}
Used(t) == pos[t] - Cardinality(Rolling(t))

\* Only drawing items are inside an Add, and on a tile of their light; what a
\* light covers is known only while its frame is rendered.
ItemsInv ==
    /\ \A l \in Lights : todo[l] \subseteq cover[l]
    /\ \A l \in Lights : pc[l] # "next" => tile[l] \in todo[l]
    /\ phase # "draw" => \A l \in Lights : todo[l] = {}
    /\ phase \in {"ready", "cleared"} => \A l \in Lights : cover[l] = {}

\* m_pos exceeds the capacity by exactly the pending rollbacks.
OvershootInv ==
    \A t \in Tiles :
        /\ Used(t) \in 0 .. Capacity
        /\ Rolling(t) # {} => Used(t) = Capacity

\* A reserved slot lies below m_pos, its owner is alone and it keeps its light.
OwnerInv ==
    /\ \A l \in Lights, t \in Tiles :
          pc[l] \in {"store", "count"} /\ tile[l] = t
            => slot[l] \in 0 .. Used(t) - 1
    /\ \A l \in Lights : pc[l] = "count" => buffer[tile[l]][slot[l]] = l
    /\ SlotsExclusive

\* The used slots of tile t that an Add has written.
Written(t) ==
    {i \in 0 .. Used(t) - 1 :
        ~ \E l \in Lights : pc[l] = "store" /\ tile[l] = t /\ slot[l] = i}

\* A written slot holds a light that has finished with the tile, or is about to.
Covering(t) ==
    \A i \in Written(t) :
        LET m == buffer[t][i] IN
        /\ m \in Lights
        /\ t \in cover[m]
        /\ \/ t \notin todo[m]
           \/ pc[m] = "count" /\ tile[m] = t /\ slot[m] = i

ListedOnce(t) == \A i, j \in Written(t) : i # j => buffer[t][i] # buffer[t][j]

\* A light that has finished with the tile has a slot, unless the list is full.
NoneMissing(t) ==
    \A l \in Lights : t \in cover[l] \ todo[l] =>
        Used(t) = Capacity \/ \E i \in Written(t) : buffer[t][i] = l

ContentInv ==
    phase # "ready" =>
        \A t \in Tiles : Covering(t) /\ ListedOnce(t) /\ NoneMissing(t)

ListInv == ItemsInv /\ OvershootInv /\ OwnerInv /\ ContentInv
=============================================================================
