------------------------------ MODULE TileProofs ------------------------------
(***************************************************************************)
(* Theorems about the lights of tiles: how the lists of tiles are filled   *)
(* and packed (LightMap), and in which tiles a light is entered            *)
(* (Rasterizer).                                                           *)
(*                                                                         *)
(* LightMap, for any number of tiles, any capacity and any finite set of   *)
(* lights: TypeOK /\ ListInv is inductive, and from it the lists are right *)
(* when parallel_for has joined; with PackInv, which says what m_count has *)
(* counted, the textures are right as well.                                *)
(*                                                                         *)
(* Rasterizer, for any map, any unit and any disks: a light is in the list *)
(* of every tile that its disk overlaps, and of no tile far from it.       *)
(***************************************************************************)
EXTENDS LightMap, Rasterizer, FiniteSetTheorems, TLAPS

-----------------------------------------------------------------------------
(* What the atomic steps of AsyncList::Add do to Used, the number of slots  *)
(* that m_pos stands for once the rejected Adds have rolled back.           *)

\* Only finitely many items can be rolling back (there are finitely many).
LEMMA RollingFinite ==
    ASSUME NEW t
    PROVE  /\ IsFiniteSet(Rolling(t))
           /\ Cardinality(Rolling(t)) \in Nat
           /\ Rolling(t) = {} => Cardinality(Rolling(t)) = 0
<1>1. IsFiniteSet(Rolling(t))
  BY FS_Subset, ConstantsAssumption DEF Rolling
<1>2. QED
  BY <1>1, FS_CardinalityType, FS_EmptySet

LEMMA RollingFiniteNext ==
    ASSUME NEW t
    PROVE  /\ IsFiniteSet(Rolling(t)')
           /\ Cardinality(Rolling(t)') \in Nat
           /\ Rolling(t)' = {} => Cardinality(Rolling(t)') = 0
<1>1. IsFiniteSet(Rolling(t)')
  BY FS_Subset, ConstantsAssumption DEF Rolling
<1>2. QED
  BY <1>1, FS_CardinalityType, FS_EmptySet

\* A fetch_add below the capacity takes a new slot; one at or above it changes
\* nothing but the number of pending rollbacks, and the tile is full.
LEMMA UsedReserve ==
    ASSUME TypeOK, OvershootInv, NEW l \in Lights, Reserve(l)
    PROVE  \E s \in todo[l] :
              /\ s \in Tiles /\ pos[s] \in Int
              /\ tile' = [tile EXCEPT ![l] = s]
              /\ slot' = [slot EXCEPT ![l] = pos[s]]
              /\ pos' = [pos EXCEPT ![s] = @ + 1]
              /\ \A t \in Tiles \ {s} :
                    Used(t)' = Used(t) /\ Rolling(t)' = Rolling(t)
              /\ \/ /\ pc' = [pc EXCEPT ![l] = "store"]
                    /\ pos[s] = Used(s) /\ Used(s) < Capacity
                    /\ Used(s)' = Used(s) + 1
                    /\ Rolling(s) = {} /\ Rolling(s)' = {}
                 \/ /\ pc' = [pc EXCEPT ![l] = "undo"]
                    /\ Used(s) = Capacity /\ Used(s)' = Capacity
<1>1. PICK s \in todo[l] :
        /\ tile' = [tile EXCEPT ![l] = s]
        /\ slot' = [slot EXCEPT ![l] = pos[s]]
        /\ pos' = [pos EXCEPT ![s] = @ + 1]
        /\ pc' = [pc EXCEPT ![l] = IF pos[s] < Capacity THEN "store" ELSE "undo"]
  BY DEF Reserve
<1>2. /\ s \in Tiles /\ pos[s] \in Int
      /\ pos'[s] = pos[s] + 1
      /\ pc[l] = "next"
  BY <1>1 DEF TypeOK, Reserve
<1>3. ASSUME NEW t \in Tiles \ {s}
      PROVE  Used(t)' = Used(t) /\ Rolling(t)' = Rolling(t)
  <2>1. Rolling(t)' = Rolling(t)
    BY <1>1, <1>2, <1>3 DEF Rolling, TypeOK
  <2>2. pos'[t] = pos[t]
    BY <1>1, <1>3 DEF TypeOK
  <2>3. QED
    BY <2>1, <2>2 DEF Used
<1>4. CASE pos[s] < Capacity
  <2>1. Rolling(s) = {}
    BY <1>2, <1>4, RollingFinite, ConstantsAssumption DEF OvershootInv, Used
  <2>2. Rolling(s)' = {}
    BY <2>1, <1>1, <1>2, <1>4 DEF Rolling, TypeOK
  <2>3. Used(s) = pos[s]
    <3>1. Cardinality(Rolling(s)) = 0
      BY <2>1, RollingFinite
    <3>2. QED
      BY <3>1, <1>2 DEF Used
  <2>4. Used(s)' = pos[s] + 1
    <3>1. Cardinality(Rolling(s)') = 0
      BY <2>2, RollingFiniteNext
    <3>2. QED
      BY <3>1, <1>2 DEF Used
  <2>5. QED
    BY <1>1, <1>2, <1>3, <1>4, <2>1, <2>2, <2>3, <2>4
<1>5. CASE ~(pos[s] < Capacity)
  <2>1. Used(s) = Capacity
    BY <1>2, <1>5, RollingFinite, ConstantsAssumption DEF OvershootInv, Used
  <2>2. Rolling(s)' = Rolling(s) \cup {l} /\ l \notin Rolling(s)
    BY <1>1, <1>2, <1>5 DEF Rolling, TypeOK
  <2>3. Cardinality(Rolling(s)') = Cardinality(Rolling(s)) + 1
    BY <2>2, RollingFinite, FS_AddElement
  <2>4. Used(s)' = Used(s)
    BY <2>3, <1>2, RollingFinite DEF Used
  <2>5. QED
    BY <1>1, <1>2, <1>3, <1>5, <2>1, <2>4
<1>6. QED
  BY <1>4, <1>5

\* The m_pos-- of a rejected Add gives back what its fetch_add took.
LEMMA UsedUndo ==
    ASSUME TypeOK, ItemsInv, NEW l \in Lights, Undo(l)
    PROVE  \A t \in Tiles : Used(t)' = Used(t) /\ Rolling(t)' \subseteq Rolling(t)
<1>1. /\ tile[l] \in Tiles /\ pc[l] = "undo"
      /\ pos' = [pos EXCEPT ![tile[l]] = @ - 1]
      /\ tile' = [tile EXCEPT ![l] = 0]
      /\ pc' = [pc EXCEPT ![l] = "next"]
  BY DEF TypeOK, ItemsInv, Undo, AddDone
<1>2. ASSUME NEW t \in Tiles
      PROVE  Used(t)' = Used(t) /\ Rolling(t)' \subseteq Rolling(t)
  <2>1. CASE t = tile[l]
    <3>1. Rolling(t)' = Rolling(t) \ {l} /\ l \in Rolling(t)
      BY <1>1, <2>1 DEF Rolling, TypeOK
    <3>2. Cardinality(Rolling(t)') = Cardinality(Rolling(t)) - 1
      BY <3>1, RollingFinite, FS_RemoveElement
    <3>3. pos'[t] = pos[t] - 1 /\ pos[t] \in Int
      BY <1>1, <2>1 DEF TypeOK
    <3>4. QED
      BY <3>1, <3>2, <3>3, RollingFinite DEF Used
  <2>2. CASE t # tile[l]
    <3>1. Rolling(t)' = Rolling(t)
      BY <1>1, <2>2 DEF Rolling, TypeOK
    <3>2. pos'[t] = pos[t]
      BY <1>1, <2>2 DEF TypeOK
    <3>3. QED
      BY <3>1, <3>2 DEF Used
  <2>3. QED
    BY <2>1, <2>2
<1>3. QED
  BY <1>2

\* The store and the m_count += leave the reservations alone.
LEMMA UsedStoreTally ==
    ASSUME TypeOK, NEW l \in Lights, Store(l) \/ Tally(l)
    PROVE  \A t \in Tiles : Used(t)' = Used(t) /\ Rolling(t)' = Rolling(t)
<1>1. ASSUME NEW t \in Tiles
      PROVE  Rolling(t)' = Rolling(t)
  BY DEF Rolling, TypeOK, Store, Tally, AddDone
<1>2. pos' = pos
  BY DEF Store, Tally
<1>3. QED
  BY <1>1, <1>2 DEF Used

\* When no item is inside an Add, m_pos is exactly the number of used slots.
LEMMA QuietUsed ==
    ASSUME TypeOK, ItemsInv, OvershootInv, phase # "draw"
    PROVE  /\ \A l \in Lights : pc[l] = "next"
           /\ \A t \in Tiles : Rolling(t) = {} /\ Used(t) = pos[t]
           /\ \A t \in Tiles : pos[t] \in 0 .. Capacity
<1>1. \A l \in Lights : pc[l] = "next"
  BY DEF ItemsInv
<1>2. ASSUME NEW t \in Tiles
      PROVE  /\ Rolling(t) = {} /\ Used(t) = pos[t]
             /\ pos[t] \in 0 .. Capacity
  <2>1. Rolling(t) = {}
    BY <1>1 DEF Rolling
  <2>2. Cardinality(Rolling(t)) = 0
    BY <2>1, RollingFinite
  <2>3. Used(t) = pos[t]
    BY <2>2 DEF Used, TypeOK
  <2>4. QED
    BY <2>1, <2>3 DEF OvershootInv
<1>3. QED
  BY <1>1, <1>2

-----------------------------------------------------------------------------
(* The types.  Only BuildTile needs the invariant: it reads slots below     *)
(* m_pos, which are slots because no Add is rolling back any more.          *)

LEMMA TypeStep ==
    ASSUME TypeOK, ItemsInv, OvershootInv, [Next]_vars
    PROVE  TypeOK'
<1> USE ConstantsAssumption
<1>1. CASE Clear
  BY <1>1 DEF TypeOK, Clear, itemVars, texVars
<1>2. CASE Fork
  BY <1>2 DEF TypeOK, Fork, listVars, texVars
<1>3. CASE StartBuild
  <2>1. /\ hasTex' \in BOOLEAN /\ alloc' \in Nat
        /\ lightsTex' \in [0 .. alloc' - 1 -> Lights \cup {Junk}]
    BY <1>3 DEF TypeOK, StartBuild
  <2>2. /\ phase' = "build" /\ bTile' = 0 /\ bPos' = 0
        /\ UNCHANGED <<listVars, itemVars, indices>>
    BY <1>3 DEF StartBuild
  <2>3. /\ phase' \in {"ready", "cleared", "draw", "build"}
        /\ bTile' \in 0 .. NumTiles /\ bPos' \in Int
    BY <2>2
  <2>4. QED
    BY <2>1, <2>2, <2>3 DEF TypeOK, listVars, itemVars
<1>4. CASE BuildTile
  <2>1. bTile \in Tiles /\ pos[bTile] \in 0 .. Capacity
    <3>1. bTile \in Tiles /\ phase = "build"
      BY <1>4 DEF BuildTile, TypeOK, Tiles
    <3>2. QED
      BY <3>1, QuietUsed
  <2>2. ASSUME NEW k \in 0 .. alloc - 1, k \in bPos .. bPos + pos[bTile] - 1
        PROVE  buffer[bTile][k - bPos] \in Lights \cup {Junk}
    <3>1. k - bPos \in Slots
      BY <2>1, <2>2 DEF TypeOK, Slots
    <3>2. QED
      BY <2>1, <3>1 DEF TypeOK
  <2>3. lightsTex' \in [0 .. alloc - 1 -> Lights \cup {Junk}]
    BY <1>4, <2>2 DEF BuildTile, TypeOK
  <2>4. indices' \in [Tiles -> [offset : Int, count : Int]]
    BY <1>4, <2>1 DEF BuildTile, TypeOK
  <2>5. bTile' \in 0 .. NumTiles /\ bPos' \in Int
    BY <1>4, <2>1 DEF BuildTile, TypeOK
  <2>6. QED
    BY <1>4, <2>3, <2>4, <2>5 DEF BuildTile, TypeOK, listVars, itemVars
<1>5. CASE EndFrame
  BY <1>5 DEF TypeOK, EndFrame, listVars
<1>6. ASSUME NEW l \in Lights, Reserve(l)
      PROVE  TypeOK'
  <2>1. PICK s \in todo[l] :
          /\ tile' = [tile EXCEPT ![l] = s]
          /\ slot' = [slot EXCEPT ![l] = pos[s]]
          /\ pos' = [pos EXCEPT ![s] = @ + 1]
          /\ pc' = [pc EXCEPT ![l] = IF pos[s] < Capacity THEN "store" ELSE "undo"]
    BY <1>6 DEF Reserve
  <2>2. s \in Tiles /\ s \in Nat
    BY <2>1 DEF TypeOK, Tiles
  <2>3. QED
    BY <1>6, <2>1, <2>2 DEF TypeOK, Reserve, texVars
<1>7. ASSUME NEW l \in Lights, Store(l)
      PROVE  TypeOK'
  BY <1>7 DEF TypeOK, Store, texVars
<1>8. ASSUME NEW l \in Lights, Tally(l)
      PROVE  TypeOK'
  BY <1>8 DEF TypeOK, Tally, AddDone, texVars
<1>9. ASSUME NEW l \in Lights, Undo(l)
      PROVE  TypeOK'
  <2>1. /\ pos' = [pos EXCEPT ![tile[l]] = @ - 1]
        /\ tile[l] \in Tiles
    BY <1>9 DEF Undo, ItemsInv, TypeOK
  <2>2. pos' \in [Tiles -> Int]
    BY <2>1 DEF TypeOK
  <2>3. QED
    BY <1>9, <2>2 DEF TypeOK, Undo, AddDone, texVars
<1>10. CASE UNCHANGED vars
  BY <1>10 DEF TypeOK, vars, listVars, itemVars, texVars
<1>11. QED
  BY <1>1, <1>2, <1>3, <1>4, <1>5, <1>6, <1>7, <1>8, <1>9, <1>10
     DEF Next, Main, Item

-----------------------------------------------------------------------------
(* The parts of ListInv, one lemma each.                                    *)

\* The steps outside the Adds and Clear leave the reservations alone.
LEMMA UsedUnchanged ==
    ASSUME UNCHANGED <<pos, pc, tile>>
    PROVE  \A t \in Tiles : Used(t)' = Used(t) /\ Rolling(t)' = Rolling(t)
BY DEF Used, Rolling

\* Clear takes every reservation back: no item holds one.
LEMMA UsedClear ==
    ASSUME TypeOK, ItemsInv, OvershootInv, Clear
    PROVE  \A t \in Tiles : Used(t)' = 0 /\ Rolling(t)' = {}
<1>1. ASSUME NEW t \in Tiles
      PROVE  Used(t)' = 0 /\ Rolling(t)' = {}
  <2>1. Rolling(t)' = {}
    BY QuietUsed DEF Rolling, Clear, itemVars
  <2>2. Cardinality(Rolling(t)') = 0
    BY <2>1, RollingFiniteNext
  <2>3. pos'[t] = 0
    BY DEF Clear
  <2>4. QED
    BY <2>1, <2>2, <2>3 DEF Used
<1>2. QED
  BY <1>1

LEMMA ItemsStep ==
    ASSUME TypeOK, ItemsInv, [Next]_vars
    PROVE  ItemsInv'
<1>1. CASE Main \/ UNCHANGED vars
  <2>1. CASE Clear
    BY <2>1 DEF ItemsInv, Clear, itemVars
  <2>2. CASE Fork
    BY <2>2 DEF ItemsInv, Fork, TypeOK
  <2>3. CASE StartBuild
    BY <2>3 DEF ItemsInv, StartBuild, itemVars
  <2>4. CASE BuildTile
    BY <2>4 DEF ItemsInv, BuildTile, itemVars
  <2>5. CASE EndFrame
    BY <2>5 DEF ItemsInv, EndFrame
  <2>6. CASE UNCHANGED vars
    BY <2>6 DEF ItemsInv, vars, itemVars
  <2>7. QED
    BY <1>1, <2>1, <2>2, <2>3, <2>4, <2>5, <2>6 DEF Main
<1>2. ASSUME NEW l \in Lights, Reserve(l)
      PROVE  ItemsInv'
  BY <1>2 DEF ItemsInv, Reserve, TypeOK
<1>3. ASSUME NEW l \in Lights, Store(l)
      PROVE  ItemsInv'
  BY <1>3 DEF ItemsInv, Store, TypeOK
<1>4. ASSUME NEW l \in Lights, Tally(l) \/ Undo(l)
      PROVE  ItemsInv'
  <2>1. phase = "draw" /\ phase' = "draw" /\ cover' = cover
    BY <1>4 DEF ItemsInv, Tally, Undo
  <2>2. AddDone(l)
    BY <1>4 DEF Tally, Undo
  <2>3. ASSUME NEW m \in Lights
        PROVE  /\ todo'[m] \subseteq cover[m]
               /\ pc'[m] # "next" => tile'[m] \in todo'[m]
    BY <2>2 DEF ItemsInv, AddDone, TypeOK
  <2>4. QED
    BY <2>1, <2>3 DEF ItemsInv
<1>5. QED
  BY <1>1, <1>2, <1>3, <1>4 DEF Next, Item

LEMMA OvershootStep ==
    ASSUME TypeOK, ItemsInv, OvershootInv, [Next]_vars
    PROVE  OvershootInv'
<1>1. CASE Clear
  BY <1>1, UsedClear, ConstantsAssumption DEF OvershootInv
<1>2. CASE Fork \/ StartBuild \/ BuildTile \/ EndFrame \/ UNCHANGED vars
  <2>1. UNCHANGED <<pos, pc, tile>>
    BY <1>2
       DEF Fork, StartBuild, BuildTile, EndFrame, vars, listVars, itemVars
  <2>2. QED
    BY <2>1, UsedUnchanged DEF OvershootInv
<1>3. ASSUME NEW l \in Lights, Reserve(l)
      PROVE  OvershootInv'
  BY <1>3, UsedReserve, ConstantsAssumption DEF OvershootInv
<1>4. ASSUME NEW l \in Lights, Undo(l)
      PROVE  OvershootInv'
  BY <1>4, UsedUndo DEF OvershootInv
<1>5. ASSUME NEW l \in Lights, Store(l) \/ Tally(l)
      PROVE  OvershootInv'
  BY <1>5, UsedStoreTally DEF OvershootInv
<1>6. QED
  BY <1>1, <1>2, <1>3, <1>4, <1>5 DEF Next, Main, Item

\* Reserving: the new slot is above all the others.  Storing: the slot is
\* owned by one item only, so the lights of the others stay.
LEMMA OwnerStep ==
    ASSUME TypeOK, ItemsInv, OvershootInv, OwnerInv, [Next]_vars
    PROVE  OwnerInv'
<1> USE DEF OwnerInv, SlotsExclusive
<1>1. CASE Clear
  BY <1>1, QuietUsed DEF Clear, itemVars
<1>2. CASE Fork \/ StartBuild \/ BuildTile \/ EndFrame \/ UNCHANGED vars
  <2>1. \A l \in Lights : pc[l] # "next" => tile[l] \in Tiles
    BY DEF ItemsInv, TypeOK
  <2>2. UNCHANGED <<pos, buffer, pc, tile, slot>>
    BY <1>2
       DEF Fork, StartBuild, BuildTile, EndFrame, vars, listVars, itemVars
  <2>3. QED
    BY <2>1, <2>2, UsedUnchanged
<1>3. ASSUME NEW l \in Lights, Reserve(l)
      PROVE  OwnerInv'
  <2>1. PICK s \in todo[l] :
          /\ s \in Tiles /\ pos[s] \in Int
          /\ tile' = [tile EXCEPT ![l] = s]
          /\ slot' = [slot EXCEPT ![l] = pos[s]]
          /\ \A t \in Tiles \ {s} : Used(t)' = Used(t)
          /\ \/ /\ pc' = [pc EXCEPT ![l] = "store"]
                /\ pos[s] = Used(s) /\ Used(s)' = Used(s) + 1
             \/ /\ pc' = [pc EXCEPT ![l] = "undo"]
                /\ Used(s)' = Used(s)
    BY <1>3, UsedReserve
  <2>2. Used(s) \in Nat /\ \A t \in Tiles : Used(t) \in Nat
    BY <2>1, ConstantsAssumption DEF OvershootInv
  <2>3. ASSUME NEW m \in Lights \ {l}
        PROVE  /\ pc'[m] = pc[m] /\ tile'[m] = tile[m] /\ slot'[m] = slot[m]
               /\ pc[m] # "next" => tile[m] \in Tiles
    BY <2>1 DEF TypeOK, ItemsInv
  <2>4. /\ pc'[l] = "store" => slot'[l] = Used(s) /\ Used(s)' = Used(s) + 1
        /\ pc'[l] \in {"store", "undo"} /\ tile'[l] = s
        /\ \A t \in Tiles : Used(t)' \in {Used(t), Used(t) + 1}
    BY <2>1 DEF TypeOK
  <2>5. ASSUME NEW m \in Lights, NEW t \in Tiles,
               pc'[m] \in {"store", "count"}, tile'[m] = t
        PROVE  slot'[m] \in 0 .. Used(t)' - 1
    <3>1. CASE m = l
      BY <2>2, <2>4, <2>5, <3>1
    <3>2. CASE m # l
      <4>1. slot[m] \in 0 .. Used(t) - 1
        BY <2>3, <2>5, <3>2
      <4>2. Used(t)' \in {Used(t), Used(t) + 1}
        BY <2>4
      <4>3. QED
        BY <2>2, <2>3, <3>2, <4>1, <4>2
    <3>3. QED
      BY <3>1, <3>2
  <2>6. \A m \in Lights : pc'[m] = "count" => buffer'[tile'[m]][slot'[m]] = m
    BY <1>3, <2>3, <2>4 DEF Reserve
  <2>7. ASSUME NEW m \in Lights \ {l}, pc'[l] = "store",
               pc'[m] \in {"store", "count"}, tile'[m] = s
        PROVE  slot'[m] # slot'[l]
    <3>1. slot[m] \in 0 .. Used(s) - 1
      BY <2>3, <2>7
    <3>2. QED
      BY <2>2, <2>3, <2>4, <2>7, <3>1
  <2>8. SlotsExclusive'
    BY <2>3, <2>4, <2>7
  <2>9. QED
    BY <2>5, <2>6, <2>8
<1>4. ASSUME NEW l \in Lights, Store(l)
      PROVE  OwnerInv'
  <2>1. /\ pc' = [pc EXCEPT ![l] = "count"] /\ pc[l] = "store"
        /\ tile' = tile /\ slot' = slot
        /\ buffer' = [buffer EXCEPT ![tile[l]][slot[l]] = l]
    BY <1>4 DEF Store
  <2>2. /\ tile[l] \in Tiles /\ slot[l] \in Slots
        /\ \A m \in Lights : pc[m] # "next" => tile[m] \in Tiles
    <3>1. \A m \in Lights : pc[m] # "next" => tile[m] \in Tiles
      BY DEF ItemsInv, TypeOK
    <3>2. tile[l] \in Tiles /\ slot[l] \in 0 .. Used(tile[l]) - 1
      BY <2>1, <3>1
    <3>3. QED
      BY <3>1, <3>2, ConstantsAssumption DEF OvershootInv, Slots
  <2>3. /\ \A m \in Lights : pc'[m] \in {"store", "count"}
                               => pc[m] \in {"store", "count"}
        /\ \A t \in Tiles : Used(t)' = Used(t)
    BY <1>4, <2>1, UsedStoreTally DEF TypeOK
  <2>4. buffer'[tile[l]][slot[l]] = l
    BY <2>1, <2>2 DEF TypeOK
  <2>5. ASSUME NEW m \in Lights \ {l}, pc'[m] = "count"
        PROVE  buffer'[tile[m]][slot[m]] = m
    <3>1. pc[m] = "count" /\ tile[m] \in Tiles
      BY <2>1, <2>2, <2>5 DEF TypeOK
    <3>2. tile[m] = tile[l] => slot[m] # slot[l]
      BY <2>1, <3>1
    <3>3. buffer'[tile[m]][slot[m]] = buffer[tile[m]][slot[m]]
      BY <2>1, <2>2, <3>1, <3>2 DEF TypeOK
    <3>4. QED
      BY <3>1, <3>3
  <2>6. ASSUME NEW m \in Lights, NEW t \in Tiles,
               pc'[m] \in {"store", "count"}, tile[m] = t
        PROVE  slot[m] \in 0 .. Used(t)' - 1
    BY <2>3, <2>6
  <2>7. SlotsExclusive'
    BY <2>1, <2>3
  <2>8. QED
    BY <2>1, <2>4, <2>5, <2>6, <2>7
<1>5. ASSUME NEW l \in Lights, Tally(l) \/ Undo(l)
      PROVE  OwnerInv'
  <2>1. /\ AddDone(l) /\ buffer' = buffer
        /\ \A t \in Tiles : Used(t)' = Used(t)
    BY <1>5, UsedUndo, UsedStoreTally DEF Tally, Undo
  <2>2. ASSUME NEW m \in Lights, pc'[m] \in {"store", "count"}
        PROVE  /\ m # l /\ pc'[m] = pc[m]
               /\ tile'[m] = tile[m] /\ slot'[m] = slot[m]
               /\ tile[m] \in Tiles
    BY <2>1, <2>2 DEF AddDone, TypeOK, ItemsInv
  <2>3. QED
    BY <2>1, <2>2
<1>6. QED
  BY <1>1, <1>2, <1>3, <1>4, <1>5 DEF Next, Main, Item

-----------------------------------------------------------------------------
(* ContentInv: what the written slots hold.  First, what a step does to the *)
(* set of written slots.                                                    *)

LEMMA WrittenSame ==
    ASSUME UNCHANGED <<pos, pc, tile, slot>>
    PROVE  \A t \in Tiles : Written(t)' = Written(t)
BY UsedUnchanged DEF Written

LEMMA WrittenClear ==
    ASSUME TypeOK, ItemsInv, OvershootInv, Clear
    PROVE  \A t \in Tiles : Written(t)' = {}
BY UsedClear DEF Written

\* A reserved slot is not written yet.
LEMMA WrittenReserve ==
    ASSUME TypeOK, ItemsInv, OvershootInv, OwnerInv, NEW l \in Lights, Reserve(l)
    PROVE  \A t \in Tiles : Written(t)' = Written(t)
<1>1. PICK s \in todo[l] :
        /\ s \in Tiles /\ pos[s] \in Int
        /\ tile' = [tile EXCEPT ![l] = s]
        /\ slot' = [slot EXCEPT ![l] = pos[s]]
        /\ \A t \in Tiles \ {s} : Used(t)' = Used(t)
        /\ \/ /\ pc' = [pc EXCEPT ![l] = "store"]
              /\ pos[s] = Used(s) /\ Used(s)' = Used(s) + 1
           \/ /\ pc' = [pc EXCEPT ![l] = "undo"]
              /\ Used(s)' = Used(s)
  BY UsedReserve
<1>2. pc[l] = "next" /\ tile'[l] = s /\ slot'[l] = pos[s]
  BY <1>1 DEF Reserve, TypeOK
<1>3. ASSUME NEW m \in Lights \ {l}
      PROVE  pc'[m] = pc[m] /\ tile'[m] = tile[m] /\ slot'[m] = slot[m]
  BY <1>1 DEF TypeOK
<1>4. ASSUME NEW t \in Tiles \ {s}
      PROVE  Written(t)' = Written(t)
  <2>1. ASSUME NEW m \in Lights, NEW i
        PROVE  (pc'[m] = "store" /\ tile'[m] = t /\ slot'[m] = i)
                 <=> (pc[m] = "store" /\ tile[m] = t /\ slot[m] = i)
    BY <1>2, <1>3, <1>4
  <2>2. QED
    BY <1>1, <1>4, <2>1 DEF Written
<1>5. CASE pc' = [pc EXCEPT ![l] = "undo"] /\ Used(s)' = Used(s)
  <2>1. ASSUME NEW m \in Lights, NEW i
        PROVE  (pc'[m] = "store" /\ tile'[m] = s /\ slot'[m] = i)
                 <=> (pc[m] = "store" /\ tile[m] = s /\ slot[m] = i)
    BY <1>2, <1>3, <1>5 DEF TypeOK
  <2>2. Written(s)' = Written(s)
    BY <1>5, <2>1 DEF Written
  <2>3. QED
    BY <1>4, <2>2
<1>6. CASE /\ pc' = [pc EXCEPT ![l] = "store"]
           /\ pos[s] = Used(s) /\ Used(s)' = Used(s) + 1
  <2>1. pc'[l] = "store" /\ slot'[l] = Used(s) /\ Used(s) \in Nat
    BY <1>1, <1>2, <1>6, ConstantsAssumption DEF TypeOK, OvershootInv
  <2>2. ASSUME NEW m \in Lights, NEW i \in 0 .. Used(s) - 1
        PROVE  (pc'[m] = "store" /\ tile'[m] = s /\ slot'[m] = i)
                 <=> (pc[m] = "store" /\ tile[m] = s /\ slot[m] = i)
    BY <1>2, <1>3, <2>1, <2>2
  <2>3. \A i \in 0 .. Used(s) : i \in 0 .. Used(s) - 1 \/ i = Used(s)
    BY <2>1
  <2>4. Used(s) \notin Written(s)' /\ Used(s) \notin 0 .. Used(s) - 1
    BY <1>2, <2>1 DEF Written
  <2>5. 0 .. Used(s)' - 1 = 0 .. Used(s)
    BY <1>6, <2>1
  <2>6. Written(s)' \subseteq Written(s)
    BY <2>2, <2>3, <2>4, <2>5 DEF Written
  <2>7. Written(s) \subseteq Written(s)'
    <3>1. 0 .. Used(s) - 1 \subseteq 0 .. Used(s)
      BY <2>1
    <3>2. QED
      BY <2>2, <2>5, <3>1 DEF Written
  <2>8. QED
    BY <1>4, <2>6, <2>7
<1>7. QED
  BY <1>1, <1>5, <1>6

\* The store writes its slot, which nobody had written.
LEMMA WrittenStore ==
    ASSUME TypeOK, ItemsInv, OvershootInv, OwnerInv, NEW l \in Lights, Store(l),
           NEW t \in Tiles
    PROVE  /\ tile[l] # t => Written(t)' = Written(t)
           /\ tile[l] = t => /\ Written(t)' = Written(t) \cup {slot[l]}
                             /\ slot[l] \notin Written(t)
                             /\ slot[l] \in 0 .. Used(t) - 1
<1>1. /\ pc[l] = "store" /\ pc' = [pc EXCEPT ![l] = "count"]
      /\ tile' = tile /\ slot' = slot /\ Used(t)' = Used(t)
  BY UsedStoreTally DEF Store
<1>2. ASSUME NEW m \in Lights
      PROVE  pc'[m] = "store" <=> pc[m] = "store" /\ m # l
  BY <1>1 DEF TypeOK
<1>3. CASE tile[l] # t
  BY <1>1, <1>2, <1>3 DEF Written
<1>4. CASE tile[l] = t
  <2>1. slot[l] \in 0 .. Used(t) - 1
    BY <1>1, <1>4 DEF OwnerInv
  <2>2. \A m \in Lights : m # l /\ pc[m] = "store" /\ tile[m] = t
                            => slot[m] # slot[l]
    BY <1>1, <1>4 DEF OwnerInv, SlotsExclusive
  <2>3. Written(t)' = Written(t) \cup {slot[l]}
    BY <1>1, <1>2, <1>4, <2>1, <2>2 DEF Written
  <2>4. QED
    BY <1>1, <1>4, <2>1, <2>3 DEF Written
<1>5. QED
  BY <1>3, <1>4

LEMMA WrittenAddDone ==
    ASSUME TypeOK, ItemsInv, NEW l \in Lights, Tally(l) \/ Undo(l)
    PROVE  \A t \in Tiles : Written(t)' = Written(t)
<1>1. \A t \in Tiles : Used(t)' = Used(t)
  BY UsedUndo, UsedStoreTally
<1>2. ASSUME NEW m \in Lights, NEW t, NEW i
      PROVE  (pc'[m] = "store" /\ tile'[m] = t /\ slot'[m] = i)
               <=> (pc[m] = "store" /\ tile[m] = t /\ slot[m] = i)
  BY DEF Tally, Undo, AddDone, TypeOK
<1>3. QED
  BY <1>1, <1>2 DEF Written

LEMMA ContentStep ==
    ASSUME TypeOK, ListInv, [Next]_vars
    PROVE  ContentInv'
<1> USE DEF ListInv
<1>1. CASE Clear
  <2>1. \A t \in Tiles : Written(t)' = {}
    BY <1>1, WrittenClear
  <2>2. \A l \in Lights : cover'[l] = {}
    BY <1>1 DEF Clear, ItemsInv, itemVars
  <2>3. QED
    BY <2>1, <2>2 DEF ContentInv, Covering, ListedOnce, NoneMissing
<1>2. CASE Fork
  <2>1. \A t \in Tiles : Written(t)' = Written(t) /\ Used(t)' = Used(t)
    BY <1>2, WrittenSame, UsedUnchanged DEF Fork, listVars
  <2>2. \A t \in Tiles : Written(t)' = {}
    BY <1>2, <2>1 DEF ContentInv, Covering, ItemsInv, Fork
  <2>3. cover' = todo'
    BY <1>2 DEF Fork
  <2>4. QED
    BY <2>2, <2>3 DEF ContentInv, Covering, ListedOnce, NoneMissing
<1>3. CASE StartBuild \/ BuildTile \/ UNCHANGED vars
  <2>1. /\ UNCHANGED <<listVars, itemVars>>
        /\ phase' # "ready" => phase # "ready"
    BY <1>3 DEF StartBuild, BuildTile, vars
  <2>2. \A t \in Tiles : Written(t)' = Written(t) /\ Used(t)' = Used(t)
    BY <2>1, WrittenSame, UsedUnchanged DEF listVars, itemVars
  <2>3. QED
    BY <2>1, <2>2
       DEF ContentInv, Covering, ListedOnce, NoneMissing, listVars, itemVars
<1>4. CASE EndFrame
  BY <1>4 DEF EndFrame, ContentInv
<1>5. ASSUME NEW l \in Lights, Reserve(l)
      PROVE  ContentInv'
  <2>1. /\ UNCHANGED <<buffer, cover, todo>>
        /\ \A t \in Tiles : Written(t)' = Written(t)
    BY <1>5, WrittenReserve DEF Reserve
  <2>2. ASSUME NEW t \in Tiles
        PROVE  Used(t) = Capacity => Used(t)' = Capacity
    BY <1>5, <2>2, UsedReserve, ConstantsAssumption DEF OvershootInv
  <2>3. \A m \in Lights : pc[m] = "count" =>
            pc'[m] = "count" /\ tile'[m] = tile[m] /\ slot'[m] = slot[m]
    BY <1>5 DEF Reserve, TypeOK
  <2>4. phase = "draw"
    BY <1>5 DEF Reserve
  <2>5. QED
    BY <2>1, <2>2, <2>3, <2>4
       DEF ContentInv, Covering, ListedOnce, NoneMissing
<1>6. ASSUME NEW l \in Lights, Store(l), phase' # "ready", NEW t \in Tiles
      PROVE  (Covering(t) /\ ListedOnce(t) /\ NoneMissing(t))'
  <2>1. /\ pc[l] = "store" /\ pc' = [pc EXCEPT ![l] = "count"]
        /\ UNCHANGED <<cover, todo, tile, slot>>
        /\ buffer' = [buffer EXCEPT ![tile[l]][slot[l]] = l]
        /\ tile[l] \in Tiles /\ tile[l] \in todo[l] /\ tile[l] \in cover[l]
        /\ Used(t)' = Used(t)
    BY <1>6, UsedStoreTally DEF Store, ItemsInv, TypeOK
  <2>2. Covering(t) /\ ListedOnce(t) /\ NoneMissing(t)
    BY <1>6 DEF ContentInv, Store
  <2>3. ASSUME NEW m \in Lights
        PROVE  /\ m # l => pc'[m] = pc[m]
               /\ pc'[l] = "count"
    BY <2>1 DEF TypeOK
  <2>4. \A i \in Written(t) : buffer[t][i] = l => t # tile[l]
    BY <2>1, <2>2 DEF Covering
  <2>5. CASE tile[l] # t
    <3>1. buffer'[t] = buffer[t] /\ Written(t)' = Written(t)
      BY <1>6, <2>1, <2>5, WrittenStore DEF TypeOK
    <3>2. QED
      BY <2>1, <2>2, <2>3, <2>5, <3>1 DEF Covering, ListedOnce, NoneMissing
  <2>6. CASE tile[l] = t
    <3>1. /\ Written(t)' = Written(t) \cup {slot[l]}
          /\ slot[l] \notin Written(t)
          /\ slot[l] \in Slots
      BY <1>6, <2>6, WrittenStore, ConstantsAssumption
         DEF OvershootInv, Slots
    <3>2. /\ buffer'[t][slot[l]] = l
          /\ \A i \in Written(t) : buffer'[t][i] = buffer[t][i]
      BY <2>1, <2>6, <3>1 DEF TypeOK
    <3>3. Covering(t)'
      <4>1. ASSUME NEW i \in Written(t)
            PROVE  LET m == buffer[t][i] IN
                   /\ m \in Lights /\ t \in cover[m]
                   /\ \/ t \notin todo[m]
                      \/ pc'[m] = "count" /\ tile[m] = t /\ slot[m] = i
        BY <2>1, <2>2, <2>3 DEF Covering
      <4>2. QED
        BY <2>1, <2>3, <2>6, <3>1, <3>2, <4>1 DEF Covering
    <3>4. ListedOnce(t)'
      BY <2>2, <2>4, <2>6, <3>1, <3>2 DEF ListedOnce
    <3>5. NoneMissing(t)'
      BY <2>1, <2>2, <3>1, <3>2 DEF NoneMissing
    <3>6. QED
      BY <3>3, <3>4, <3>5
  <2>7. QED
    BY <2>5, <2>6
<1>7. ASSUME NEW l \in Lights, Tally(l) \/ Undo(l), phase' # "ready",
             NEW t \in Tiles
      PROVE  (Covering(t) /\ ListedOnce(t) /\ NoneMissing(t))'
  <2>1. /\ UNCHANGED <<buffer, cover, phase>>
        /\ todo' = [todo EXCEPT ![l] = @ \ {tile[l]}]
        /\ pc' = [pc EXCEPT ![l] = "next"]
        /\ tile' = [tile EXCEPT ![l] = 0]
        /\ slot' = [slot EXCEPT ![l] = 0]
    BY <1>7 DEF Tally, Undo, AddDone
  <2>2. Used(t)' = Used(t) /\ Written(t)' = Written(t)
    BY <1>7, UsedUndo, UsedStoreTally, WrittenAddDone
  <2>3. Covering(t) /\ ListedOnce(t) /\ NoneMissing(t)
    BY <1>7, <2>1 DEF ContentInv
  <2>4. ASSUME NEW m \in Lights
        PROVE  /\ m # l => /\ pc'[m] = pc[m] /\ todo'[m] = todo[m]
                           /\ tile'[m] = tile[m] /\ slot'[m] = slot[m]
               /\ todo'[l] = todo[l] \ {tile[l]}
    BY <2>1 DEF TypeOK
  <2>5. Covering(t)'
    BY <2>1, <2>2, <2>3, <2>4 DEF Covering
  <2>6. ListedOnce(t)'
    BY <2>1, <2>2, <2>3 DEF ListedOnce
  <2>7. ASSUME tile[l] = t
        PROVE  \/ Used(t) = Capacity
               \/ \E i \in Written(t) : buffer[t][i] = l
    <3>1. CASE Undo(l)
      BY <2>7, <3>1 DEF Undo, OvershootInv, Rolling
    <3>2. CASE Tally(l)
      <4>1. /\ pc[l] = "count" /\ buffer[t][slot[l]] = l
            /\ slot[l] \in 0 .. Used(t) - 1
        BY <2>7, <3>2 DEF Tally, OwnerInv
      <4>2. slot[l] \in Written(t)
        BY <2>7, <4>1 DEF Written, OwnerInv, SlotsExclusive
      <4>3. QED
        BY <4>1, <4>2
    <3>3. QED
      BY <1>7, <3>1, <3>2
  <2>8. NoneMissing(t)'
    BY <2>1, <2>2, <2>3, <2>4, <2>7 DEF NoneMissing
  <2>9. QED
    BY <2>5, <2>6, <2>8
<1>8. QED
  BY <1>1, <1>2, <1>3, <1>4, <1>5, <1>6, <1>7 DEF Next, Main, Item, ContentInv

-----------------------------------------------------------------------------
(* The theorems.                                                            *)

\* A new STLLRender satisfies the invariant.
LEMMA InitInv ==
    ASSUME Init
    PROVE  TypeOK /\ ListInv
<1> USE ConstantsAssumption
<1>1. TypeOK
  <2>1. lightsTex \in [0 .. alloc - 1 -> Lights \cup {Junk}]
    BY DEF Init
  <2>2. indices \in [Tiles -> [offset : Int, count : Int]]
    BY DEF Init
  <2>3. buffer \in [Tiles -> [Slots -> Lights \cup {Junk}]]
    BY DEF Init
  <2>4. bTile \in 0 .. NumTiles
    BY DEF Init
  <2>5. /\ phase = "ready"
        /\ count = 0 /\ alloc = 0 /\ bPos = 0
        /\ pos \in [Tiles -> Int]
    BY DEF Init
  <2>6. /\ cover \in [Lights -> SUBSET Tiles]
        /\ pc \in [Lights -> {"next", "store", "count", "undo"}]
        /\ todo \in [Lights -> SUBSET Tiles]
        /\ tile \in [Lights -> Nat] /\ slot \in [Lights -> Int]
    BY DEF Init
  <2>7. /\ phase \in {"ready", "cleared", "draw", "build"}
        /\ count \in Nat /\ alloc \in Nat /\ bPos \in Int
        /\ pos \in [Tiles -> Int]
    BY <2>5
  <2>8. hasTex \in BOOLEAN
    BY DEF Init
  <2>9. QED
    BY <2>1, <2>2, <2>3, <2>4, <2>6, <2>7, <2>8 DEF TypeOK
<1>2. \A t \in Tiles : Rolling(t) = {} /\ Used(t) = 0 /\ Written(t) = {}
  <2>1. ASSUME NEW t \in Tiles
        PROVE  Rolling(t) = {} /\ Used(t) = 0 /\ Written(t) = {}
    <3>1. Rolling(t) = {} /\ pos[t] = 0
      BY DEF Init, Rolling
    <3>2. Cardinality(Rolling(t)) = 0
      BY <3>1, RollingFinite
    <3>3. Used(t) = 0
      BY <3>1, <3>2 DEF Used
    <3>4. QED
      BY <3>1, <3>3 DEF Written
  <2>2. QED
    BY <2>1
<1>3. ItemsInv /\ OvershootInv
  BY <1>2 DEF Init, ItemsInv, OvershootInv
<1>4. OwnerInv /\ ContentInv
  BY DEF Init, OwnerInv, SlotsExclusive, ContentInv
<1>5. QED
  BY <1>1, <1>3, <1>4 DEF ListInv

\* The types and the invariant together are inductive.
THEOREM Inductive == Spec => [](TypeOK /\ ListInv)
<1>1. Init => TypeOK /\ ListInv
  BY InitInv
<1>2. TypeOK /\ ListInv /\ [Next]_vars => (TypeOK /\ ListInv)'
  BY TypeStep, ItemsStep, OvershootStep, OwnerStep, ContentStep DEF ListInv
<1>3. QED
  BY <1>1, <1>2, PTL DEF Spec

\* Every variable keeps its type: in particular BuildTexture never copies
\* anything but the light of a slot into m_lightsTex.
THEOREM TypeCorrect == Spec => []TypeOK
BY Inductive, PTL

\* However the Adds of a frame interleave, no two of them own the same slot.
THEOREM SlotsAreExclusive == Spec => []SlotsExclusive
<1>1. ListInv => SlotsExclusive
  BY DEF ListInv, OwnerInv
<1>2. QED
  BY <1>1, Inductive, PTL

\* After the join of parallel_for the lists are right: within their buffers,
\* no holes, no leftovers, no duplicates, and complete unless full.
THEOREM ListsAfterJoin == Spec => []JoinedLists
<1>1. ASSUME TypeOK, ListInv, phase = "build", NEW t \in Tiles
      PROVE  /\ pos[t] \in 0 .. Capacity
             /\ Used(t) = pos[t] /\ Written(t) = 0 .. pos[t] - 1
             /\ Covering(t) /\ ListedOnce(t) /\ NoneMissing(t)
             /\ \A l \in Lights : todo[l] = {}
  BY <1>1, QuietUsed DEF ListInv, ContentInv, ItemsInv, Written
<1>2. TypeOK /\ ListInv => JoinedLists
  BY <1>1 DEF JoinedLists, Covering, ListedOnce, NoneMissing
<1>3. QED
  BY <1>2, Inductive, PTL

\* The slots Listed speaks of are the written ones.
LEMMA ListedWritten ==
    ASSUME TypeOK, OvershootInv, NEW t \in Tiles, NEW i
    PROVE  /\ i \in Slots /\ i < pos[t]
           /\ \A m \in Lights : ~ (pc[m] = "store" /\ tile[m] = t /\ slot[m] = i)
           <=> i \in Written(t)
<1>1. /\ Used(t) \in 0 .. Capacity /\ pos[t] \in Int
      /\ Rolling(t) # {} => Used(t) = Capacity
  BY DEF TypeOK, OvershootInv
<1>2. Cardinality(Rolling(t)) \in Nat /\ Used(t) = pos[t] - Cardinality(Rolling(t))
  BY RollingFinite DEF Used
<1>3. Rolling(t) = {} => Used(t) = pos[t]
  BY <1>1, <1>2, RollingFinite
<1>4. i \in Slots /\ i < pos[t] <=> i \in 0 .. Used(t) - 1
  <2>1. CASE Rolling(t) = {}
    BY <1>1, <1>3, <2>1, ConstantsAssumption DEF Slots
  <2>2. CASE Rolling(t) # {}
    BY <1>1, <1>2, <2>2, ConstantsAssumption DEF Slots
  <2>3. QED
    BY <2>1, <2>2
<1>5. QED
  BY <1>4 DEF Written

Kept(t) == {l \in Lights : /\ t \in cover[l] \ todo[l]
                           /\ \E i \in Written(t) : buffer[t][i] = l}

LEMMA KeptStep ==
    ASSUME TypeOK, ListInv, [Next]_vars, phase' # "ready", NEW t \in Tiles
    PROVE  Kept(t) \subseteq Kept(t)'
<1> USE DEF ListInv
<1>1. CASE Clear \/ Fork
  BY <1>1 DEF Clear, Fork, ItemsInv, Kept
<1>2. CASE StartBuild \/ BuildTile \/ UNCHANGED vars
  <2>1. UNCHANGED <<listVars, itemVars>>
    BY <1>2 DEF StartBuild, BuildTile, vars
  <2>2. QED
    BY <2>1, WrittenSame DEF listVars, itemVars, Kept
<1>3. CASE EndFrame
  BY <1>3 DEF EndFrame
<1>4. ASSUME NEW l \in Lights, Reserve(l)
      PROVE  Kept(t) \subseteq Kept(t)'
  BY <1>4, WrittenReserve DEF Reserve, Kept
<1>5. ASSUME NEW l \in Lights, Store(l)
      PROVE  Kept(t) \subseteq Kept(t)'
  <2>1. /\ UNCHANGED <<cover, todo>> /\ Written(t) \subseteq Written(t)'
        /\ tile[l] = t => slot[l] \notin Written(t)
    BY <1>5, WrittenStore DEF Store
  <2>2. \A i \in Written(t) : buffer'[t][i] = buffer[t][i]
    BY <1>5, <2>1 DEF Store, TypeOK
  <2>3. QED
    BY <2>1, <2>2 DEF Kept
<1>6. ASSUME NEW l \in Lights, Tally(l) \/ Undo(l)
      PROVE  Kept(t) \subseteq Kept(t)'
  <2>1. /\ UNCHANGED <<cover, buffer>> /\ Written(t)' = Written(t)
    BY <1>6, WrittenAddDone DEF Tally, Undo
  <2>2. \A m \in Lights : todo'[m] \subseteq todo[m]
    <3>1. todo' = [todo EXCEPT ![l] = @ \ {tile[l]}]
      BY <1>6 DEF Tally, Undo, AddDone
    <3>2. QED
      BY <3>1 DEF TypeOK
  <2>3. QED
    BY <2>1, <2>2 DEF Kept
<1>7. QED
  BY <1>1, <1>2, <1>3, <1>4, <1>5, <1>6 DEF Next, Main, Item

\* Within a frame no step of any Add removes a light from a list.
THEOREM ListedLightsStay == Spec => ListedStays
<1>1. TypeOK /\ ListInv => \A t \in Tiles : Listed(t) = Kept(t)
  BY ListedWritten DEF ListInv, Listed, Kept
<1>2. TypeOK /\ ListInv /\ [Next]_vars
        /\ (\A t \in Tiles : Listed(t) = Kept(t))
        /\ (\A t \in Tiles : Listed(t) = Kept(t))'
        => [phase' # "ready" =>
              \A t \in Tiles : Listed(t) \subseteq Listed(t)']_vars
  BY KeptStep
<1>3. QED
  BY <1>1, <1>2, Inductive, PTL DEF Spec, ListedStays

-----------------------------------------------------------------------------
(* What BuildTexture packs.                                                 *)

\* The Adds between their fetch_add on m_pos and the one on m_count, and the
\* slots of tile t that m_count has.
Pending(t) == {l \in Lights : pc[l] \in {"store", "count"} /\ tile[l] = t}
Tallied(t) == Used(t) - Cardinality(Pending(t))

\* sum[t] lights have been tallied on the tiles before t, and m_count has all.
Sums(sum) ==
    /\ sum \in [0 .. NumTiles -> Nat]
    /\ sum[0] = 0 /\ sum[NumTiles] = count
    /\ \A t \in Tiles : sum[t + 1] = sum[t] + Tallied(t)
    /\ \A t, u \in 0 .. NumTiles : t <= u => sum[t] <= sum[u]

\* The tiles before n have been packed, each behind those before it.
Packed(sum, n) ==
    \A t \in Tiles : t < n =>
        /\ indices[t].offset = sum[t] /\ indices[t].count = pos[t]
        /\ \A i \in 0 .. pos[t] - 1 : lightsTex[sum[t] + i] = buffer[t][i]

PackInv ==
    \E sum : /\ Sums(sum)
             /\ phase = "build" =>
                   bPos = sum[bTile] /\ count <= alloc /\ Packed(sum, bTile)
             /\ phase = "ready" /\ hasTex => Packed(sum, NumTiles)

LEMMA PendingFinite ==
    ASSUME NEW t
    PROVE  /\ IsFiniteSet(Pending(t))
           /\ Cardinality(Pending(t)) \in Nat
           /\ Pending(t) = {} => Cardinality(Pending(t)) = 0
<1>1. IsFiniteSet(Pending(t))
  BY FS_Subset, ConstantsAssumption DEF Pending
<1>2. QED
  BY <1>1, FS_CardinalityType, FS_EmptySet

LEMMA PendingFiniteNext ==
    ASSUME NEW t
    PROVE  Pending(t)' = {} => Cardinality(Pending(t)') = 0
BY FS_EmptySet

\* Only Tally changes how many slots of a tile have been tallied.
LEMMA TalliedSame ==
    ASSUME TypeOK, ItemsInv, OvershootInv, NEW l \in Lights,
           Reserve(l) \/ Store(l) \/ Undo(l), NEW t \in Tiles
    PROVE  Tallied(t)' = Tallied(t)
<1>0. Used(t) \in Int
  BY RollingFinite DEF Used, TypeOK
<1>1. CASE Reserve(l)
  <2>1. PICK s \in todo[l] :
          /\ s \in Tiles
          /\ tile' = [tile EXCEPT ![l] = s]
          /\ \A u \in Tiles \ {s} : Used(u)' = Used(u)
          /\ \/ pc' = [pc EXCEPT ![l] = "store"] /\ Used(s)' = Used(s) + 1
             \/ pc' = [pc EXCEPT ![l] = "undo"] /\ Used(s)' = Used(s)
    BY <1>1, UsedReserve
  <2>2. pc[l] = "next"
    BY <1>1 DEF Reserve
  <2>3. ASSUME Pending(t)' = Pending(t), Used(t)' = Used(t)
        PROVE  Tallied(t)' = Tallied(t)
    BY <2>3 DEF Tallied
  <2>4. CASE pc' = [pc EXCEPT ![l] = "store"] /\ Used(s)' = Used(s) + 1
    <3>1. CASE t = s
      <4>1. Pending(t)' = Pending(t) \cup {l} /\ l \notin Pending(t)
        BY <2>1, <2>2, <2>4, <3>1 DEF Pending, TypeOK
      <4>2. Cardinality(Pending(t)') = Cardinality(Pending(t)) + 1
        BY <4>1, PendingFinite, FS_AddElement
      <4>3. Used(t)' = Used(t) + 1
        BY <2>4, <3>1
      <4>4. QED
        BY <1>0, <4>2, <4>3, PendingFinite DEF Tallied
    <3>2. CASE t # s
      <4>1. Pending(t)' = Pending(t)
        BY <2>1, <2>2, <2>4, <3>2 DEF Pending, TypeOK
      <4>2. Used(t)' = Used(t)
        BY <2>1, <3>2
      <4>3. QED
        BY <2>3, <4>1, <4>2
    <3>3. QED
      BY <3>1, <3>2
  <2>5. CASE pc' = [pc EXCEPT ![l] = "undo"] /\ Used(s)' = Used(s)
    <3>1. Pending(t)' = Pending(t)
      BY <2>1, <2>2, <2>5 DEF Pending, TypeOK
    <3>2. Used(t)' = Used(t)
      BY <2>1, <2>5
    <3>3. QED
      BY <2>3, <3>1, <3>2
  <2>6. QED
    BY <2>1, <2>4, <2>5
<1>2. CASE Store(l) \/ Undo(l)
  <2>1. Used(t)' = Used(t)
    BY <1>2, UsedStoreTally, UsedUndo
  <2>2. Pending(t)' = Pending(t)
    <3>1. CASE Store(l)
      BY <3>1 DEF Store, Pending, TypeOK
    <3>2. CASE Undo(l)
      BY <3>2 DEF Undo, AddDone, Pending, TypeOK
    <3>3. QED
      BY <1>2, <3>1, <3>2
  <2>3. QED
    BY <2>1, <2>2 DEF Tallied
<1>3. QED
  BY <1>1, <1>2

LEMMA TalliedTally ==
    ASSUME TypeOK, ItemsInv, NEW l \in Lights, Tally(l)
    PROVE  \E s \in Tiles : /\ Tallied(s)' = Tallied(s) + 1
                            /\ \A t \in Tiles \ {s} : Tallied(t)' = Tallied(t)
<1>1. /\ tile[l] \in Tiles /\ pc[l] = "count"
      /\ tile' = [tile EXCEPT ![l] = 0]
      /\ pc' = [pc EXCEPT ![l] = "next"]
  BY DEF TypeOK, ItemsInv, Tally, AddDone
<1>2. \A t \in Tiles : Used(t)' = Used(t) /\ Used(t) \in Int
  BY UsedStoreTally, RollingFinite DEF Used, TypeOK
<1>3. PICK s \in Tiles : s = tile[l]
  BY <1>1
<1>4. Tallied(s)' = Tallied(s) + 1
  <2>1. Pending(s)' = Pending(s) \ {l} /\ l \in Pending(s)
    BY <1>1, <1>3 DEF Pending, TypeOK
  <2>2. Cardinality(Pending(s)') = Cardinality(Pending(s)) - 1
    BY <2>1, PendingFinite, FS_RemoveElement
  <2>3. QED
    BY <1>2, <2>2, PendingFinite DEF Tallied
<1>5. ASSUME NEW t \in Tiles \ {s}
      PROVE  Tallied(t)' = Tallied(t)
  <2>1. Pending(t)' = Pending(t)
    BY <1>1, <1>3 DEF Pending, TypeOK
  <2>2. QED
    BY <1>2, <2>1 DEF Tallied
<1>6. QED
  BY <1>4, <1>5

\* Outside the drawing phase all slots below m_pos have been tallied.
LEMMA QuietTallied ==
    ASSUME TypeOK, ItemsInv, OvershootInv, phase # "draw", NEW t \in Tiles
    PROVE  Tallied(t) = pos[t] /\ pos[t] \in 0 .. Capacity
<1>1. Pending(t) = {} /\ Used(t) = pos[t] /\ pos[t] \in 0 .. Capacity
  BY QuietUsed DEF Pending
<1>2. QED
  BY <1>1, PendingFinite DEF Tallied

LEMMA TalliedClear ==
    ASSUME TypeOK, ItemsInv, OvershootInv, Clear, NEW t \in Tiles
    PROVE  Tallied(t)' = 0
<1>1. Pending(t)' = {} /\ Used(t)' = 0
  BY QuietUsed, UsedClear DEF Pending, Clear, itemVars
<1>2. QED
  BY <1>1, PendingFiniteNext DEF Tallied

LEMMA TalliedUnchanged ==
    ASSUME UNCHANGED <<pos, pc, tile>>, NEW t \in Tiles
    PROVE  Tallied(t)' = Tallied(t)
BY UsedUnchanged DEF Tallied, Pending

LEMMA InitPack == ASSUME Init PROVE PackInv
<1> USE ConstantsAssumption
<1> DEFINE sum == [t \in 0 .. NumTiles |-> 0]
<1>1. ASSUME NEW t \in Tiles PROVE Tallied(t) = 0
  <2>1. Rolling(t) = {} /\ Pending(t) = {} /\ pos[t] = 0
    BY DEF Init, Rolling, Pending
  <2>2. QED
    BY <2>1, RollingFinite, PendingFinite DEF Tallied, Used
<1>2. Sums(sum)
  BY <1>1 DEF Sums, Init, Tiles
<1>3. phase = "ready" /\ ~ hasTex
  BY DEF Init
<1>4. QED
  BY <1>2, <1>3 DEF PackInv

\* One more light on tile s: the sums behind it grow by one.
LEMMA SumsTally ==
    ASSUME TypeOK, ItemsInv, NEW l \in Lights, Tally(l), NEW sum, Sums(sum)
    PROVE  \E new : Sums(new)'
<1> USE ConstantsAssumption
<1>1. PICK s \in Tiles :
         /\ Tallied(s)' = Tallied(s) + 1
         /\ \A t \in Tiles \ {s} : Tallied(t)' = Tallied(t)
  BY TalliedTally
<1>2. \A t \in Tiles : Tallied(t) \in Int
  BY RollingFinite, PendingFinite DEF Tallied, Used, TypeOK
<1> DEFINE new == [t \in 0 .. NumTiles |-> IF t <= s THEN sum[t] ELSE sum[t] + 1]
<1>3. /\ sum \in [0 .. NumTiles -> Nat]
      /\ sum[0] = 0 /\ sum[NumTiles] = count /\ count' = count + 1
      /\ \A t \in Tiles : sum[t + 1] = sum[t] + Tallied(t)
      /\ \A t, u \in 0 .. NumTiles : t <= u => sum[t] <= sum[u]
  BY DEF Sums, Tally
<1>4. s \in Nat /\ s < NumTiles
  BY DEF Tiles
<1>5. new \in [0 .. NumTiles -> Nat] /\ new[0] = 0 /\ new[NumTiles] = count'
  BY <1>3, <1>4
<1>6. ASSUME NEW t \in Tiles PROVE new[t + 1] = new[t] + Tallied(t)'
  <2>1. t \in Nat /\ t \in 0 .. NumTiles /\ t + 1 \in 0 .. NumTiles
    BY DEF Tiles
  <2>2. sum[t] \in Nat /\ sum[t + 1] \in Nat /\ sum[t + 1] = sum[t] + Tallied(t)
    BY <1>3, <2>1
  <2>3. CASE t = s
    BY <1>1, <1>2, <1>4, <2>1, <2>2, <2>3
  <2>4. CASE t # s
    BY <1>1, <1>2, <1>4, <2>1, <2>2, <2>4
  <2>5. QED
    BY <2>3, <2>4
<1>7. ASSUME NEW t \in 0 .. NumTiles, NEW u \in 0 .. NumTiles, t <= u
      PROVE  new[t] <= new[u]
  BY <1>3, <1>4, <1>7
<1> HIDE DEF new
<1>8. Sums(new)'
  BY <1>5, <1>6, <1>7 DEF Sums
<1>9. QED
  BY <1>8

\* Where the tiles begin and end in the texture.
LEMMA SumsQuiet ==
    ASSUME TypeOK, ItemsInv, OvershootInv, phase # "draw", NEW sum, Sums(sum), NEW t \in Tiles
    PROVE  /\ pos[t] \in 0 .. Capacity
           /\ sum[t] \in Nat /\ sum[t + 1] = sum[t] + pos[t]
           /\ \A u \in t + 1 .. NumTiles : sum[u] \in Nat /\ sum[t] + pos[t] <= sum[u]
<1> USE ConstantsAssumption
<1>1. Tallied(t) = pos[t] /\ pos[t] \in 0 .. Capacity
  BY QuietTallied
<1>2. t \in 0 .. NumTiles /\ t + 1 \in 0 .. NumTiles /\ t \in Nat
  BY DEF Tiles
<1>3. \A u \in t + 1 .. NumTiles : u \in 0 .. NumTiles /\ t + 1 <= u
  BY <1>2
<1>4. QED
  BY <1>1, <1>2, <1>3 DEF Sums

LEMMA SumsSame ==
    ASSUME NEW sum, Sums(sum), count' = count, \A t \in Tiles : Tallied(t)' = Tallied(t)
    PROVE  Sums(sum)'
BY DEF Sums

\* Tile n is packed behind those before it, and over none of them.
LEMMA PackTile ==
    ASSUME TypeOK, ItemsInv, OvershootInv, BuildTile, NEW sum, Sums(sum),
           bPos = sum[bTile], count <= alloc, Packed(sum, bTile)
    PROVE  bPos' = sum[bTile'] /\ \A n \in Nat : n = bTile' => Packed(sum, n)'
<1> USE ConstantsAssumption
<1>0. phase # "draw" /\ pos' = pos /\ buffer' = buffer
  BY DEF BuildTile, listVars
<1>1. PICK b \in Tiles : b = bTile
  BY DEF BuildTile, TypeOK, Tiles
<1>2. /\ bPos = sum[b] /\ bPos \in Nat /\ pos[b] \in 0 .. Capacity
      /\ sum[b + 1] = bPos + pos[b]
  BY <1>0, <1>1, SumsQuiet
<1>3. bTile' = b + 1 /\ bPos' = sum[b + 1] /\ b \in Nat
  BY <1>1, <1>2 DEF BuildTile, Tiles
<1>4. sum[b + 1] <= alloc
  <2>1. b + 1 \in 0 .. NumTiles /\ NumTiles \in 0 .. NumTiles /\ b + 1 <= NumTiles
    BY DEF Tiles
  <2>2. sum[b + 1] <= sum[NumTiles] /\ sum[NumTiles] = count /\ sum[b + 1] \in Nat
    BY <2>1 DEF Sums
  <2>3. QED
    BY <2>2 DEF TypeOK
<1>5. /\ indices' = [indices EXCEPT ![b] = [offset |-> bPos, count |-> pos[b]]]
      /\ lightsTex' = [k \in 0 .. alloc - 1 |->
                          IF k \in bPos .. bPos + pos[b] - 1
                          THEN buffer[b][k - bPos] ELSE lightsTex[k]]
  BY <1>1 DEF BuildTile
<1>6. ASSUME NEW t \in Tiles, t < b + 1
      PROVE  /\ indices'[t].offset = sum[t] /\ indices'[t].count = pos[t]
             /\ \A i \in 0 .. pos[t] - 1 : lightsTex'[sum[t] + i] = buffer[t][i]
  <2>0. t \in Nat /\ sum[t] \in Nat /\ pos[t] \in Nat
    BY <1>0, SumsQuiet DEF Tiles
  <2>1. CASE t = b
    <3>1. indices'[t] = [offset |-> bPos, count |-> pos[b]]
      BY <1>5, <2>1 DEF TypeOK
    <3>2. ASSUME NEW i \in 0 .. pos[b] - 1
          PROVE  lightsTex'[bPos + i] = buffer[b][i]
      <4>0. /\ bPos \in Nat /\ pos[b] \in Nat /\ alloc \in Int /\ i \in Nat /\ i < pos[b]
            /\ bPos + pos[b] <= alloc
        BY <1>2, <1>4 DEF TypeOK
      <4>1. /\ bPos + i \in 0 .. alloc - 1 /\ bPos + i \in bPos .. bPos + pos[b] - 1
            /\ (bPos + i) - bPos = i
        BY <4>0
      <4>2. QED
        BY <1>5, <4>1
    <3>3. QED
      BY <1>2, <2>1, <3>1, <3>2
  <2>2. CASE t < b
    <3>1. b \in t + 1 .. NumTiles
      BY <1>3, <2>0, <2>2 DEF Tiles
    <3>2. sum[t] + pos[t] <= bPos
      BY <1>0, <1>2, <3>1, SumsQuiet
    <3>3. indices'[t] = indices[t]
      BY <1>5, <2>2, <2>0, <1>3 DEF TypeOK
    <3>a. alloc \in Nat /\ pos[b] \in Nat /\ sum[b + 1] \in Nat
      BY <1>2 DEF TypeOK
    <3>4. ASSUME NEW i \in 0 .. pos[t] - 1
          PROVE  lightsTex'[sum[t] + i] = lightsTex[sum[t] + i]
      <4>1. sum[t] + i \in 0 .. alloc - 1 /\ sum[t] + i \notin bPos .. bPos + pos[b] - 1
        BY <1>2, <1>4, <2>0, <3>2, <3>a
      <4>2. QED
        BY <1>5, <4>1
    <3>5. QED
      BY <1>1, <2>2, <3>3, <3>4 DEF Packed
  <2>3. QED
    BY <1>3, <1>6, <2>0, <2>1, <2>2
<1>7. Packed(sum, b + 1)'
  BY <1>0, <1>6 DEF Packed
<1>8. QED
  BY <1>3, <1>7

LEMMA PackStep ==
    ASSUME TypeOK, ListInv, PackInv, [Next]_vars
    PROVE  PackInv'
<1> USE ConstantsAssumption
<1>0. ItemsInv /\ OvershootInv
  BY DEF ListInv
<1>1. PICK sum :
         /\ Sums(sum)
         /\ phase = "build" => bPos = sum[bTile] /\ count <= alloc /\ Packed(sum, bTile)
         /\ phase = "ready" /\ hasTex => Packed(sum, NumTiles)
  BY DEF PackInv
<1>2. CASE Clear
  <2> DEFINE new == [t \in 0 .. NumTiles |-> 0]
  <2>1. count' = 0 /\ phase' = "cleared" /\ \A t \in Tiles : Tallied(t)' = 0
    BY <1>0, <1>2, TalliedClear DEF Clear
  <2>2. Sums(new)'
    BY <2>1 DEF Sums, Tiles
  <2>3. QED
    BY <2>1, <2>2 DEF PackInv
<1>3. CASE Fork \/ StartBuild \/ BuildTile \/ EndFrame \/ UNCHANGED vars
  <2>1. count' = count /\ UNCHANGED <<pos, pc, tile, buffer>>
    BY <1>3 DEF Fork, StartBuild, BuildTile, EndFrame, vars, listVars, itemVars
  <2>2. Sums(sum)'
    BY <1>1, <2>1, TalliedUnchanged, SumsSame
  <2>3. CASE Fork
    <3>1. phase' = "draw"
      BY <2>3 DEF Fork
    <3>2. QED
      BY <2>2, <3>1 DEF PackInv
  <2>4. CASE StartBuild
    <3>1. phase' = "build" /\ bTile' = 0 /\ bPos' = 0
      BY <2>4 DEF StartBuild
    <3>2. count' <= alloc'
      BY <2>1, <2>4 DEF StartBuild, TypeOK
    <3>3. Packed(sum, 0)'
      BY DEF Packed, Tiles
    <3>4. Packed(sum, bTile)'
      BY <3>1, <3>3 DEF Packed
    <3>5. sum[0] = 0
      BY <1>1 DEF Sums
    <3>6. QED
      BY <2>2, <3>1, <3>2, <3>4, <3>5 DEF PackInv
  <2>5. CASE BuildTile
    <3>1. phase = "build" /\ phase' = "build" /\ alloc' = alloc /\ bTile' \in Nat
      BY <2>5 DEF BuildTile, TypeOK
    <3>2. PICK n \in Nat : n = bTile'
      BY <3>1
    <3>3. bPos' = sum[bTile'] /\ Packed(sum, n)'
      BY <1>0, <1>1, <2>5, <3>1, <3>2, PackTile
    <3>4. Packed(sum, bTile)'
      BY <3>2, <3>3 DEF Packed
    <3>5. QED
      BY <1>1, <2>1, <2>2, <3>1, <3>3, <3>4 DEF PackInv
  <2>6. CASE EndFrame
    <3>1. phase = "build" /\ bTile = NumTiles /\ phase' = "ready"
      BY <2>6 DEF EndFrame
    <3>2. Packed(sum, NumTiles)
      BY <1>1, <3>1
    <3>3. Packed(sum, NumTiles)'
      BY <2>1, <2>6, <3>2 DEF EndFrame, Packed
    <3>4. QED
      BY <2>2, <3>1, <3>3 DEF PackInv
  <2>7. CASE UNCHANGED vars
    <3>1. UNCHANGED <<phase, pos, buffer, count, alloc, hasTex, lightsTex, indices, bTile, bPos>>
      BY <2>7 DEF vars, listVars, texVars
    <3>2. QED
      BY <1>1, <2>2, <3>1 DEF PackInv, Packed
  <2>8. QED
    BY <1>3, <2>3, <2>4, <2>5, <2>6, <2>7
<1>4. ASSUME NEW l \in Lights, Reserve(l) \/ Store(l) \/ Undo(l)
      PROVE  PackInv'
  <2>1. phase' = "draw" /\ count' = count
    BY <1>0, <1>4 DEF Reserve, Store, Undo, ItemsInv
  <2>2. Sums(sum)'
    BY <1>0, <1>1, <1>4, <2>1, TalliedSame, SumsSame
  <2>3. QED
    BY <2>1, <2>2 DEF PackInv
<1>5. ASSUME NEW l \in Lights, Tally(l)
      PROVE  PackInv'
  <2>1. phase' = "draw"
    BY <1>0, <1>5 DEF Tally, ItemsInv
  <2>2. QED
    BY <1>0, <1>1, <1>5, <2>1, SumsTally DEF PackInv
<1>6. QED
  BY <1>2, <1>3, <1>4, <1>5 DEF Next, Main, Item

\* The texture and m_count go with the lists, frame after frame.
THEOREM PackedInOrder == Spec => []PackInv
<1>1. Init => PackInv
  BY InitPack
<1>2. TypeOK /\ ListInv /\ PackInv /\ [Next]_vars => PackInv'
  BY PackStep
<1>3. QED
  BY <1>1, <1>2, Inductive, PTL DEF Spec

\* BuildTexture writes no element behind the end of m_lightsTex: m_count, which
\* made the texture, is the sum of the lengths of all lists.
THEOREM PackedInside == Spec => []BuildInBounds
<1>1. ASSUME TypeOK, ListInv, PackInv PROVE BuildInBounds
  <2> USE ConstantsAssumption
  <2> SUFFICES ASSUME phase = "build", bTile < NumTiles
               PROVE  pos[bTile] \in 0 .. Capacity /\ bPos + pos[bTile] <= alloc
    BY DEF BuildInBounds
  <2>1. PICK sum : Sums(sum) /\ bPos = sum[bTile] /\ count <= alloc
    BY <1>1 DEF PackInv
  <2>2. bTile \in Tiles
    BY <1>1 DEF TypeOK, Tiles
  <2>3. NumTiles \in bTile + 1 .. NumTiles
    BY <2>2 DEF Tiles
  <2>4. pos[bTile] \in 0 .. Capacity /\ sum[bTile] + pos[bTile] <= sum[NumTiles]
    BY <1>1, <2>1, <2>2, <2>3, SumsQuiet DEF ListInv
  <2>5. sum[NumTiles] = count
    BY <2>1 DEF Sums
  <2>6. QED
    BY <1>1, <2>1, <2>4, <2>5 DEF TypeOK
<1>2. QED
  BY <1>1, Inductive, PackedInOrder, PTL

\* Between frames the two textures are the lists, one behind the other.
THEOREM TexturesAreLists == Spec => []TexturesMatchLists
<1>1. ASSUME TypeOK, ListInv, PackInv PROVE TexturesMatchLists
  <2> USE ConstantsAssumption
  <2> SUFFICES ASSUME phase = "ready", hasTex, NEW t \in Tiles
               PROVE  /\ indices[t].count = pos[t]
                      /\ indices[t].offset =
                            IF t = 0 THEN 0 ELSE indices[t-1].offset + indices[t-1].count
                      /\ t = NumTiles - 1 => indices[t].offset + indices[t].count = count
                      /\ \A i \in 0 .. pos[t] - 1 :
                            lightsTex[indices[t].offset + i] = buffer[t][i]
    BY DEF TexturesMatchLists
  <2>1. PICK sum : Sums(sum) /\ Packed(sum, NumTiles)
    BY <1>1 DEF PackInv
  <2>2. \A u \in Tiles : /\ indices[u].offset = sum[u] /\ indices[u].count = pos[u]
                         /\ sum[u + 1] = sum[u] + pos[u]
                         /\ \A i \in 0 .. pos[u] - 1 : lightsTex[sum[u] + i] = buffer[u][i]
    BY <1>1, <2>1, SumsQuiet DEF Packed, Tiles, ListInv
  <2>3. sum[0] = 0 /\ sum[NumTiles] = count
    BY <2>1 DEF Sums
  <2>4. t # 0 => t - 1 \in Tiles /\ (t - 1) + 1 = t
    BY DEF Tiles
  <2>5. t = NumTiles - 1 => t + 1 = NumTiles
    OBVIOUS
  <2>6. QED
    BY <2>2, <2>3, <2>4, <2>5
<1>2. QED
  BY <1>1, Inductive, PackedInOrder, PTL

-----------------------------------------------------------------------------
(* Arithmetic.                                                              *)

LEMMA Halves == Half \in Nat /\ 2 * Half = TileSize /\ TileSize \in Nat \ {0}
BY RasterizerAssumption DEF Half

\* Division rounds down.
LEMMA Quotient ==
    ASSUME NEW a \in Int
    PROVE  a \div TileSize \in Int /\ TileSize * (a \div TileSize) <= a /\ a < TileSize * (a \div TileSize) + TileSize
BY RasterizerAssumption

LEMMA LessByUnits ==
    ASSUME NEW a \in Int, NEW b \in Int, a * TileSize < (b + 1) * TileSize
    PROVE  a <= b
<1>1. TileSize \in Int /\ TileSize > 0
  BY RasterizerAssumption
<1>2. ASSUME a >= b + 1 PROVE a * TileSize >= (b + 1) * TileSize
  BY <1>1, <1>2
<1>3. a * TileSize \in Int /\ (b + 1) * TileSize \in Int
  BY <1>1
<1> QED
  BY <1>2, <1>3

\* What the floor and the ceiling of StartY and EndY do to a row of tiles.
LEMMA FloorAtMost ==
    ASSUME NEW a \in Int, NEW i \in Int, a < (i + 1) * TileSize
    PROVE  Floor(a) <= i
<1> DEFINE q == a \div TileSize
<1>1. q \in Int /\ q * TileSize <= a
  BY Quotient, Halves
<1>2. q * TileSize < (i + 1) * TileSize
  BY <1>1, Halves
<1> HIDE DEF q
<1>3. q <= i
  BY <1>1, <1>2, LessByUnits
<1> QED
  BY <1>3 DEF q, Floor

LEMMA CeilAbove ==
    ASSUME NEW a \in Int, NEW i \in Int, i * TileSize < a
    PROVE  i < Ceil(a)
<1> DEFINE q == (- a) \div TileSize
<1>1. q \in Int /\ q * TileSize <= - a
  BY Quotient, Halves
<1>2. i * TileSize < (- q) * TileSize
  BY <1>1, Halves
<1>3. i * TileSize < ((- q - 1) + 1) * TileSize
  BY <1>1, <1>2, Halves
<1> HIDE DEF q
<1>4. i <= - q - 1
  BY <1>1, <1>3, LessByUnits
<1> QED
  BY <1>1, <1>4 DEF q, Ceil

LEMMA SquareMonotone ==
    ASSUME NEW a \in Int, NEW b \in Int, 0 <= a, a <= b
    PROVE  a * a <= b * b
OBVIOUS

LEMMA SquareStrict ==
    ASSUME NEW a \in Int, NEW b \in Int, 0 <= a, a < b
    PROVE  a * a < b * b
OBVIOUS

LEMMA SquareNat == ASSUME NEW a \in Int PROVE a * a \in Int /\ a * a >= 0
OBVIOUS

-----------------------------------------------------------------------------
(* The half-chord of a row.                                                 *)

\* The vertical distance of row i from the centre of l.
RowApart(l, i) == Apart(l.y, i * TileSize, (i + 1) * TileSize)

\* The chord is taken at a distance t that is that of the edge of the row which
\* is nearer to the centre, or what is left of a tile when the centre is in the
\* row or less than half a tile from it.
LEMMA Chord ==
    ASSUME NEW l \in Disks, NEW i \in Int
    PROVE  \E t \in Nat : /\ DeltaSquared(l, i) = l.r * l.r - t * t
                          /\ RowApart(l, i) <= t + TileSize
                          /\ \/ t <= RowApart(l, i)
                             \/ RowApart(l, i) < Half /\ t <= TileSize - RowApart(l, i)
<1> DEFINE a == i * TileSize
           tmpY == Dist(a, l.y) - TileSize
           t == IF tmpY >= 0 THEN tmpY ELSE - tmpY
<1>0. l.x \in Int /\ l.y \in Int /\ l.r \in Nat /\ TileSize \in Nat \ {0} /\ Half \in Nat /\ 2 * Half = TileSize
  BY RasterizerAssumption, Halves
<1>1. a \in Int /\ (i + 1) * TileSize = a + TileSize
  BY <1>0
<1>2. DeltaSquared(l, i) = l.r * l.r - tmpY * tmpY
  BY DEF DeltaSquared
<1>3. RowApart(l, i) = Apart(l.y, a, a + TileSize)
  BY <1>1 DEF RowApart
<1> HIDE DEF a
<1>4. tmpY \in Int /\ t \in Nat
  BY <1>0, <1>1 DEF Dist
<1>5. t * t = tmpY * tmpY
  BY <1>4
<1>6. /\ RowApart(l, i) <= t + TileSize
      /\ \/ t <= RowApart(l, i)
         \/ RowApart(l, i) < Half /\ t <= TileSize - RowApart(l, i)
  BY <1>0, <1>1, <1>3 DEF Dist, Apart
<1> HIDE DEF t, tmpY
<1> QED
  BY <1>2, <1>4, <1>5, <1>6

\* A tile (k, i), seen from the centre of l.
TileApart(l, k) == Apart(l.x, k * TileSize, (k + 1) * TileSize)

LEMMA Distances ==
    ASSUME NEW l \in Disks, NEW k \in Int, NEW i \in Int
    PROVE  /\ TileApart(l, k) \in Nat /\ RowApart(l, i) \in Nat
           /\ Squared(l, <<k, i>>) = TileApart(l, k) * TileApart(l, k) + RowApart(l, i) * RowApart(l, i)
<1>1. l.x \in Int /\ l.y \in Int /\ TileSize \in Int
  BY RasterizerAssumption
<1>2. k * TileSize \in Int /\ (k + 1) * TileSize \in Int /\ i * TileSize \in Int /\ (i + 1) * TileSize \in Int
  BY <1>1
<1>3. TileApart(l, k) \in Nat /\ RowApart(l, i) \in Nat
  BY <1>1, <1>2 DEF TileApart, RowApart, Apart
<1> QED
  BY <1>3 DEF Squared, TileApart, RowApart

\* The two comparisons of Line are one: with the side of the tile that is nearer
\* to the centre.
LEMMA LineAsDistance ==
    ASSUME NEW l \in Disks, NEW i \in Int, NEW k \in 0 .. Width - 1
    PROVE  k \in Line(l, i) <=>
              /\ DeltaSquared(l, i) >= 0
              /\ RootExceeds(DeltaSquared(l, i), TileApart(l, k) - Half)
<1> DEFINE lo == k * TileSize
           square == DeltaSquared(l, i)
<1>0. l.x \in Int /\ l.y \in Int /\ l.r \in Nat /\ TileSize \in Nat \ {0} /\ Half \in Nat /\ 2 * Half = TileSize
  BY RasterizerAssumption, Halves
<1>1. lo \in Int /\ (k + 1) * TileSize = lo + TileSize /\ k \in Int
  BY <1>0
<1>2. TileApart(l, k) = Apart(l.x, lo, lo + TileSize)
  BY <1>1 DEF TileApart
<1>3. k \in Line(l, i) <=> /\ square >= 0
                           /\ RootExceeds(square, l.x - Half - (lo + TileSize))
                           /\ RootExceeds(square, lo - l.x - Half)
  BY <1>1 DEF Line
<1>4. square \in Int
  <2>1. i * TileSize \in Int
    BY <1>0
  <2>2. Dist(i * TileSize, l.y) - TileSize \in Int
    BY <1>0, <2>1 DEF Dist
  <2>3. (Dist(i * TileSize, l.y) - TileSize) * (Dist(i * TileSize, l.y) - TileSize) \in Int /\ l.r * l.r \in Int
    BY <1>0, <2>2
  <2> QED
    BY <2>3 DEF DeltaSquared
<1> HIDE DEF lo, square
<1>5. CASE l.x < lo
  <2>1. l.x - Half - (lo + TileSize) < 0 /\ lo - l.x - Half = TileApart(l, k) - Half
    BY <1>0, <1>1, <1>2, <1>5 DEF Apart
  <2> QED
    BY <1>3, <2>1 DEF square, RootExceeds
<1>6. CASE l.x > lo + TileSize
  <2>1. lo - l.x - Half < 0 /\ l.x - Half - (lo + TileSize) = TileApart(l, k) - Half
    BY <1>0, <1>1, <1>2, <1>6 DEF Apart
  <2> QED
    BY <1>3, <2>1 DEF square, RootExceeds
<1>7. CASE l.x >= lo /\ l.x <= lo + TileSize
  <2>1. lo - l.x - Half < 0 /\ l.x - Half - (lo + TileSize) < 0 /\ TileApart(l, k) - Half < 0
    BY <1>0, <1>1, <1>2, <1>7 DEF Apart
  <2> QED
    BY <1>3, <2>1 DEF square, RootExceeds
<1> QED
  BY <1>0, <1>1, <1>5, <1>6, <1>7

-----------------------------------------------------------------------------
(* The two inequalities.                                                    *)

\* A tile that the disk overlaps is inside the chord, widened by half a tile on
\* both sides: the half tile makes up for a chord that was taken too far out.
LEMMA ChordWideEnough ==
    ASSUME NEW r \in Nat, NEW dx \in Nat, NEW dy \in Nat, NEW t \in Nat,
           4 * r >= 5 * TileSize, dx * dx + dy * dy < r * r,
           t <= dy \/ (dy < Half /\ t <= TileSize - dy)
    PROVE  r * r - t * t >= 0 /\ RootExceeds(r * r - t * t, dx - Half)
<1>0. Half \in Nat /\ 2 * Half = TileSize /\ TileSize \in Nat \ {0}
  BY Halves
<1>1. CASE t <= dy
  <2>1. t * t <= dy * dy /\ t * t \in Int /\ dy * dy \in Int /\ r * r \in Int /\ dx * dx \in Int /\ dx * dx >= 0
    BY <1>1, SquareMonotone, SquareNat
  <2>2. ASSUME dx >= Half PROVE (dx - Half) * (dx - Half) <= dx * dx
    BY <1>0, <2>2, SquareMonotone
  <2>3. (dx - Half) * (dx - Half) \in Int
    BY <1>0
  <2> QED
    BY <1>0, <2>1, <2>2, <2>3 DEF RootExceeds
<1>2. CASE dy < Half /\ t <= TileSize - dy
  <2> DEFINE s == TileSize - dy
             p == dx - Half
  <2>1. s \in Nat /\ p \in Int /\ t <= s
    BY <1>0, <1>2
  <2>2. t * t <= s * s /\ t * t \in Int /\ s * s \in Int
    BY <2>1, SquareMonotone, SquareNat
  <2>3. s <= TileSize /\ TileSize <= r
    BY <1>0
  <2>4. s * s <= r * r /\ r * r \in Int
    BY <1>0, <2>1, <2>3, SquareMonotone, SquareNat
  <2>5. p >= 0 => p * p + s * s < r * r
    <3> SUFFICES ASSUME p >= 0 PROVE p * p + s * s < r * r
      OBVIOUS
    <3>1. s * s = TileSize * TileSize - 2 * (TileSize * dy) + dy * dy
      BY <1>0
    <3>2. 4 * (p * p) = 4 * (dx * dx) - 4 * (dx * TileSize) + TileSize * TileSize
      <4>1. p * p = dx * dx - 2 * (dx * Half) + Half * Half
        BY <1>0
      <4>2. 2 * (dx * Half) = dx * TileSize /\ 4 * (Half * Half) = TileSize * TileSize
        BY <1>0
      <4>3. dx * Half \in Int /\ Half * Half \in Int /\ dx * TileSize \in Int /\ dx * dx \in Int /\ p * p \in Int
        BY <1>0
      <4> HIDE DEF p
      <4> QED
        BY <1>0, <4>1, <4>2, <4>3
    <3>3. /\ TileSize * TileSize \in Int /\ TileSize * dy \in Int /\ dx * TileSize \in Int /\ dx * dx \in Int
          /\ dy * dy \in Int /\ r * r \in Int /\ p * p \in Int /\ s * s \in Int
      BY <1>0, <2>1
    <3>4. CASE 4 * dx >= 5 * TileSize - 8 * dy
      <4>1. (4 * dx) * TileSize >= (5 * TileSize - 8 * dy) * TileSize
        BY <1>0, <3>4
      <4>2. 4 * (dx * TileSize) >= 5 * (TileSize * TileSize) - 8 * (TileSize * dy)
        BY <1>0, <4>1
      <4> HIDE DEF p, s
      <4> QED
        BY <3>1, <3>2, <3>3, <4>2
    <3>5. CASE 4 * dx < 5 * TileSize - 8 * dy
      <4>1. 4 * p < 3 * TileSize - 8 * dy /\ 4 * p >= 0
        BY <1>0, <3>5
      <4>2. (4 * p) * (4 * p) < (3 * TileSize - 8 * dy) * (3 * TileSize - 8 * dy)
        BY <1>0, <2>1, <4>1, SquareStrict
      <4>3. 16 * (p * p) < 9 * (TileSize * TileSize) - 48 * (TileSize * dy) + 64 * (dy * dy)
        <5>1. (4 * p) * (4 * p) = 16 * (p * p)
          BY <2>1
        <5>2. (3 * TileSize - 8 * dy) * (3 * TileSize - 8 * dy) = 9 * (TileSize * TileSize) - 48 * (TileSize * dy) + 64 * (dy * dy)
          BY <1>0
        <5> QED
          BY <4>2, <5>1, <5>2
      <4>4. (4 * r) * (4 * r) >= (5 * TileSize) * (5 * TileSize)
        BY <1>0, SquareMonotone
      <4>5. 16 * (r * r) >= 25 * (TileSize * TileSize)
        <5>1. (4 * r) * (4 * r) = 16 * (r * r) /\ (5 * TileSize) * (5 * TileSize) = 25 * (TileSize * TileSize)
          BY <1>0
        <5> QED
          BY <4>4, <5>1
      <4>6. dy * dy <= TileSize * dy
        BY <1>0, <1>2
      <4> HIDE DEF p, s
      <4> QED
        BY <3>1, <3>3, <4>3, <4>5, <4>6
    <3> QED
      BY <1>0, <3>4, <3>5
  <2>6. p * p \in Int
    BY <2>1
  <2> HIDE DEF s
  <2> QED
    BY <1>0, <2>1, <2>2, <2>4, <2>5, <2>6 DEF RootExceeds
<1> QED
  BY <1>1, <1>2

\* A tile inside the widened chord is less than 5/4 tiles away from the disk.
LEMMA ChordNotTooWide ==
    ASSUME NEW r \in Nat, NEW dx \in Nat, NEW dy \in Nat, NEW t \in Nat,
           r * r - t * t >= 0, RootExceeds(r * r - t * t, dx - Half), dy <= t + TileSize
    PROVE  16 * (dx * dx + dy * dy) < (4 * r + 5 * TileSize) * (4 * r + 5 * TileSize)
<1> DEFINE p == dx - Half
<1>0. Half \in Nat /\ 2 * Half = TileSize /\ TileSize \in Nat \ {0} /\ p \in Int
  BY Halves
<1>1. (4 * r + 5 * TileSize) * (4 * r + 5 * TileSize) = 16 * (r * r) + 40 * (r * TileSize) + 25 * (TileSize * TileSize)
  BY <1>0
<1>2. dy * dy <= t * t + 2 * (t * TileSize) + TileSize * TileSize
  <2>1. dy * dy <= (t + TileSize) * (t + TileSize)
    BY <1>0, SquareMonotone
  <2>2. (t + TileSize) * (t + TileSize) = t * t + 2 * (t * TileSize) + TileSize * TileSize
    BY <1>0
  <2> QED
    BY <2>1, <2>2
<1>3. /\ r * r \in Int /\ r * TileSize \in Int /\ t * t \in Int /\ t * TileSize \in Int /\ TileSize * TileSize \in Int
      /\ dx * dx \in Int /\ dy * dy \in Int /\ p * p \in Int /\ p * TileSize \in Int
      /\ TileSize * TileSize > 0 /\ r * TileSize >= 0
  BY <1>0
<1>4. t <= r
  <2>1. ASSUME t > r PROVE FALSE
    BY <2>1, <1>3, SquareStrict
  <2> QED
    BY <2>1
<1>5. t * TileSize <= r * TileSize
  BY <1>0, <1>4
<1>6. CASE p < 0
  <2>1. dx * dx <= Half * Half /\ 4 * (Half * Half) = TileSize * TileSize /\ Half * Half \in Int
    BY <1>0, <1>6, SquareMonotone
  <2> HIDE DEF p
  <2> QED
    BY <1>1, <1>2, <1>3, <1>5, <2>1
<1>7. CASE p >= 0
  <2>1. p * p + t * t < r * r
    <3>1. RootExceeds(r * r - t * t, p)
      OBVIOUS
    <3> HIDE DEF p
    <3>2. r * r - t * t > p * p
      BY <1>0, <1>7, <3>1 DEF RootExceeds
    <3> QED
      BY <1>3, <3>2
  <2>2. 4 * (dx * dx) = 4 * (p * p) + 4 * (p * TileSize) + TileSize * TileSize
    <3>1. dx = p + Half
      BY <1>0
    <3> HIDE DEF p
    <3>2. dx * dx = p * p + 2 * (p * Half) + Half * Half
      BY <1>0, <3>1
    <3>3. 2 * (p * Half) = p * TileSize /\ 4 * (Half * Half) = TileSize * TileSize /\ p * Half \in Int /\ Half * Half \in Int
      BY <1>0
    <3>4. 4 * (dx * dx) = 4 * (p * p) + 4 * (2 * (p * Half)) + 4 * (Half * Half)
      BY <1>0, <3>2, <3>3
    <3> QED
      BY <3>3, <3>4
  <2> HIDE DEF p
  <2>3. 2 * (p + 2 * t) <= 5 * r
    <3> SUFFICES ASSUME 2 * (p + 2 * t) > 5 * r PROVE FALSE
      BY <1>0
    <3>1. (5 * r) * (5 * r) < (2 * (p + 2 * t)) * (2 * (p + 2 * t))
      BY <1>0, SquareStrict
    <3>2. /\ (5 * r) * (5 * r) = 25 * (r * r)
          /\ (2 * (p + 2 * t)) * (2 * (p + 2 * t)) = 4 * (p * p) + 16 * (p * t) + 16 * (t * t)
      BY <1>0
    <3>3. 4 * (p * p) - 4 * (p * t) + t * t >= 0 /\ p * t \in Int
      <4>1. (2 * p - t) * (2 * p - t) >= 0
        BY <1>0, SquareNat
      <4>2. (2 * p - t) * (2 * p - t) = 4 * (p * p) - 4 * (p * t) + t * t
        BY <1>0
      <4> QED
        BY <1>0, <4>1, <4>2
    <3> QED
      BY <1>3, <2>1, <3>1, <3>2, <3>3
  <2>4. 2 * (p * TileSize) + 4 * (t * TileSize) <= 5 * (r * TileSize)
    <3>1. (2 * (p + 2 * t)) * TileSize <= (5 * r) * TileSize
      BY <1>0, <2>3
    <3>2. (2 * (p + 2 * t)) * TileSize = 2 * (p * TileSize) + 4 * (t * TileSize) /\ (5 * r) * TileSize = 5 * (r * TileSize)
      BY <1>0
    <3> QED
      BY <3>1, <3>2
  <2> QED
    BY <1>1, <1>2, <1>3, <2>1, <2>2, <2>4
<1> QED
  BY <1>0, <1>6, <1>7

-----------------------------------------------------------------------------
(* The rows that are drawn.                                                 *)

LEMMA RowsTyped ==
    ASSUME NEW l \in Disks
    PROVE  StartY(l) \in Nat /\ EndY(l) \in Int /\ EndY(l) <= Width - 1
<1>0. l.y \in Int /\ l.r \in Nat /\ Half \in Nat /\ TileSize \in Nat \ {0} /\ Width \in Nat \ {0}
  BY RasterizerAssumption, Halves
<1> DEFINE low == Most(l.y - l.r - Half, 0)
           top == Least(l.y + l.r + Half, (Width - 1) * TileSize)
<1>1. (Width - 1) * TileSize \in Int
  BY <1>0
<1>2. low \in Nat /\ top \in Int /\ top <= (Width - 1) * TileSize
  BY <1>0, <1>1 DEF Most, Least
<1> HIDE DEF low, top
<1>3. low \div TileSize \in Nat
  <2>1. low \div TileSize \in Int /\ low < (low \div TileSize + 1) * TileSize
    BY <1>0, <1>2, Quotient
  <2>2. 0 * TileSize < (low \div TileSize + 1) * TileSize
    BY <1>0, <1>2, <2>1
  <2>3. 0 <= low \div TileSize
    BY <2>1, <2>2, LessByUnits
  <2> QED
    BY <2>1, <2>3
<1>4. - ((- top) \div TileSize) \in Int /\ - ((- top) \div TileSize) <= Width - 1
  <2> DEFINE q == (- top) \div TileSize
  <2>1. q \in Int /\ - top < (q + 1) * TileSize
    BY <1>0, <1>2, Quotient
  <2>2. (- (Width - 1)) * TileSize <= - top
    BY <1>0, <1>2
  <2> HIDE DEF q
  <2>3. (- (Width - 1)) * TileSize < (q + 1) * TileSize
    BY <1>0, <1>1, <1>2, <2>1, <2>2
  <2>4. - (Width - 1) <= q
    BY <1>0, <2>1, <2>3, LessByUnits
  <2> QED
    BY <1>0, <2>1, <2>4 DEF q
<1> QED
  BY <1>3, <1>4 DEF StartY, EndY, Floor, Ceil, low, top

\* A row that the disk reaches is between StartY and EndY, up to the width.
LEMMA RowsReached ==
    ASSUME NEW l \in Disks, NEW i \in 0 .. Width - 2, RowApart(l, i) < l.r
    PROVE  StartY(l) <= i /\ i < EndY(l)
<1> DEFINE a == i * TileSize
<1>0. l.y \in Int /\ l.r \in Nat /\ Half \in Nat /\ 2 * Half = TileSize /\ TileSize \in Nat \ {0} /\ Width \in Nat \ {0}
  BY RasterizerAssumption, Halves
<1>1. i \in Nat /\ a \in Nat /\ (i + 1) * TileSize = a + TileSize /\ a < (Width - 1) * TileSize
  BY <1>0
<1>2. RowApart(l, i) = Apart(l.y, a, a + TileSize)
  BY <1>1 DEF RowApart
<1> HIDE DEF a
<1>3. l.y - l.r - Half < a + TileSize /\ a < l.y + l.r + Half
  BY <1>0, <1>1, <1>2 DEF Apart
<1>4. Most(l.y - l.r - Half, 0) \in Int /\ Most(l.y - l.r - Half, 0) < (i + 1) * TileSize
  BY <1>0, <1>1, <1>3 DEF Most
<1>5. Least(l.y + l.r + Half, (Width - 1) * TileSize) \in Int /\ i * TileSize < Least(l.y + l.r + Half, (Width - 1) * TileSize)
  <2>1. (Width - 1) * TileSize \in Int
    BY <1>0
  <2>2. a < Least(l.y + l.r + Half, (Width - 1) * TileSize)
    BY <1>1, <1>3 DEF Least
  <2> QED
    BY <1>0, <2>1, <2>2 DEF Least, a
<1> QED
  BY <1>1, <1>4, <1>5, FloorAtMost, CeilAbove DEF StartY, EndY

-----------------------------------------------------------------------------
(* The invariant: what has been drawn is the rows before the next one.      *)

DrawnRows ==
    /\ light \in Disks
    /\ row \in Int /\ StartY(light) <= row
    /\ row <= Width - 1 \/ row = StartY(light)
    /\ hit = {t \in (0 .. Width - 1) \X Int :
                 StartY(light) <= t[2] /\ t[2] < row /\ t[1] \in Line(light, t[2])}

THEOREM RowByRow == DrawSpec => []DrawnRows
<1>1. DrawInit => DrawnRows
  <2> SUFFICES ASSUME DrawInit PROVE DrawnRows
    OBVIOUS
  <2>1. light \in Disks /\ row = StartY(light) /\ row \in Int
    BY RowsTyped DEF DrawInit
  <2>2. \A t \in (0 .. Width - 1) \X Int : ~ (StartY(light) <= t[2] /\ t[2] < row)
    BY <2>1
  <2> QED
    BY <2>1, <2>2 DEF DrawInit, DrawnRows
<1>2. DrawnRows /\ [DrawNext]_drawVars => DrawnRows'
  <2> SUFFICES ASSUME DrawnRows, [DrawNext]_drawVars PROVE DrawnRows'
    OBVIOUS
  <2>1. CASE DrawLine
    <3>1. light' = light /\ row' = row + 1 /\ row < EndY(light) /\ row \in Int /\ light \in Disks
      BY <2>1, RowsTyped DEF DrawLine, Drawn, DrawnRows
    <3>2. EndY(light) <= Width - 1 /\ EndY(light) \in Int /\ StartY(light) \in Int /\ Width \in Int
      BY <3>1, RowsTyped, RasterizerAssumption
    <3>3. StartY(light) <= row' /\ row' \in Int /\ row' <= Width - 1
      BY <3>1, <3>2 DEF DrawnRows
    <3>4. hit' = {t \in (0 .. Width - 1) \X Int :
                     StartY(light) <= t[2] /\ t[2] < row' /\ t[1] \in Line(light, t[2])}
      <4>1. Line(light, row) \subseteq 0 .. Width - 1
        BY DEF Line
      <4>2. \A i \in Int : i < row' <=> i < row \/ i = row
        BY <3>1
      <4>3. StartY(light) <= row
        BY DEF DrawnRows
      <4>4. \A t : t \in {<<k, row>> : k \in Line(light, row)} <=>
                     /\ t \in (0 .. Width - 1) \X Int
                     /\ t[2] = row /\ t[1] \in Line(light, t[2])
        BY <3>1, <4>1
      <4>5. hit' = hit \cup {<<k, row>> : k \in Line(light, row)}
        BY <2>1 DEF DrawLine
      <4>6. \A t : t \in hit <=> /\ t \in (0 .. Width - 1) \X Int
                                 /\ StartY(light) <= t[2] /\ t[2] < row /\ t[1] \in Line(light, t[2])
        BY DEF DrawnRows
      <4>7. \A t \in (0 .. Width - 1) \X Int : t[2] \in Int
        OBVIOUS
      <4> QED
        BY <4>2, <4>3, <4>4, <4>5, <4>6, <4>7
    <3> QED
      BY <3>1, <3>3, <3>4 DEF DrawnRows
  <2>2. CASE UNCHANGED drawVars
    BY <2>2 DEF drawVars, DrawnRows
  <2> QED
    BY <2>1, <2>2 DEF DrawNext, Finished
<1> QED
  BY <1>1, <1>2, PTL DEF DrawSpec

-----------------------------------------------------------------------------
(* The theorems.                                                            *)

\* No light is listed where it is not needed: a tile with the light is less
\* than 5/4 tiles away from its disk.
THEOREM TightDrawing == DrawSpec => []Tight
<1>1. DrawnRows => Tight
  <2> SUFFICES ASSUME DrawnRows, NEW s \in hit
               PROVE  16 * Squared(light, s) < (4 * light.r + 5 * TileSize) * (4 * light.r + 5 * TileSize)
    BY DEF Tight
  <2>1. PICK k \in 0 .. Width - 1, i \in Int : s = <<k, i>> /\ k \in Line(light, i)
    BY DEF DrawnRows
  <2>2. light \in Disks /\ light.r \in Nat /\ k \in Int
    BY RasterizerAssumption DEF DrawnRows
  <2>3. PICK t \in Nat : DeltaSquared(light, i) = light.r * light.r - t * t /\ RowApart(light, i) <= t + TileSize
    BY <2>2, Chord
  <2>4. light.r * light.r - t * t >= 0 /\ RootExceeds(light.r * light.r - t * t, TileApart(light, k) - Half)
    BY <2>1, <2>2, <2>3, LineAsDistance
  <2>5. /\ TileApart(light, k) \in Nat /\ RowApart(light, i) \in Nat
        /\ Squared(light, s) = TileApart(light, k) * TileApart(light, k) + RowApart(light, i) * RowApart(light, i)
    BY <2>1, <2>2, Distances
  <2> QED
    BY <2>2, <2>3, <2>4, <2>5, ChordNotTooWide
<1> QED
  BY <1>1, RowByRow, PTL

\* On a map that is wider than high, a light whose radius is at least 5/4 tiles
\* is in the list of every tile that its disk overlaps, although the chord is
\* taken at a distance that may be on the wrong side of the centre.  On other
\* maps EndY leaves rows out, since it takes the width for the height.
THEOREM CoveredOnWideMaps ==
    ASSUME Height < Width
    PROVE  DrawSpec => []Covered
<1>1. DrawnRows => Covered
  <2> SUFFICES ASSUME DrawnRows, Drawn, 4 * light.r >= 5 * TileSize,
                      NEW k \in 0 .. Width - 1, NEW i \in 0 .. Height - 1, Touches(light, <<k, i>>)
               PROVE  <<k, i>> \in hit
    BY DEF Covered, MapTiles
  <2>1. light \in Disks /\ light.r \in Nat /\ k \in Int /\ i \in Int /\ i \in 0 .. Width - 2
    BY RasterizerAssumption DEF DrawnRows
  <2>2. PICK t \in Nat : /\ DeltaSquared(light, i) = light.r * light.r - t * t
                         /\ \/ t <= RowApart(light, i)
                            \/ RowApart(light, i) < Half /\ t <= TileSize - RowApart(light, i)
    BY <2>1, Chord
  <2> DEFINE dx == TileApart(light, k)
             dy == RowApart(light, i)
  <2>3. dx \in Nat /\ dy \in Nat /\ dx * dx + dy * dy < light.r * light.r
    BY <2>1, Distances DEF Touches
  <2>4. k \in Line(light, i)
    <3>1. light.r * light.r - t * t >= 0 /\ RootExceeds(light.r * light.r - t * t, dx - Half)
      BY <2>1, <2>2, <2>3, ChordWideEnough
    <3> QED
      BY <2>1, <2>2, <3>1, LineAsDistance
  <2>5. RowApart(light, i) < light.r
    <3> HIDE DEF dx, dy
    <3>1. ASSUME light.r <= dy PROVE FALSE
      <4>1. light.r * light.r <= dy * dy
        BY <2>1, <2>3, <3>1, SquareMonotone
      <4>2. dx * dx >= 0 /\ dx * dx \in Int /\ dy * dy \in Int /\ light.r * light.r \in Int
        BY <2>1, <2>3
      <4> QED
        BY <2>3, <4>1, <4>2
    <3>2. dy < light.r
      BY <2>1, <2>3, <3>1
    <3> QED
      BY <3>2 DEF dy
  <2>6. StartY(light) <= i /\ i < EndY(light)
    BY <2>1, <2>5, RowsReached
  <2>7. i < row
    BY <2>1, <2>6, RowsTyped DEF Drawn, DrawnRows
  <2> QED
    BY <2>1, <2>4, <2>6, <2>7 DEF DrawnRows
<1> QED
  BY <1>1, RowByRow, PTL

\* The rows end before the last but one of a square map, so AddLine is called
\* outside of the map only when the map is wider than high by two or more tiles.
THEOREM RowsInHighMaps ==
    ASSUME Width <= Height + 1
    PROVE  DrawSpec => []RowInMap
<1>1. DrawnRows => RowInMap
  BY RowsTyped, RasterizerAssumption DEF DrawnRows, RowInMap, Drawn
<1> QED
  BY <1>1, RowByRow, PTL
===============================================================================
