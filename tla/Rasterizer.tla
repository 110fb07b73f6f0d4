----------------------------- MODULE Rasterizer -----------------------------
(***************************************************************************)
(* STLLRasterizer::Rasterize of one light: which tiles of the light map    *)
(* get the light whose projection is the disk (x, y, r).                   *)
(*                                                                         *)
(* Coordinates are exact, TileSize units to a tile.  The floats of the     *)
(* code are exact on such values, except for the square root; on the       *)
(* inputs of the runs its rounding error is far smaller than the distance  *)
(* to the next value at which a floor or a ceiling would change.  The      *)
(* square root of a negative number is a NaN, which the int conversion of  *)
(* an x86 turns into the least integer, so that AddLine has an empty line. *)
(***************************************************************************)
EXTENDS Integers

CONSTANTS Width, Height,  \* of the light map, in tiles
          TileSize,       \* the units of a tile
          Disks           \* the disks that are drawn: records with x, y and r

ASSUME RasterizerAssumption ==
    /\ Width \in Nat \ {0} /\ Height \in Nat \ {0}
    /\ TileSize \in Nat \ {0} /\ TileSize % 2 = 0
    /\ \A l \in Disks : l.x \in Int /\ l.y \in Int /\ l.r \in Nat

VARIABLES light,  \* the light that is drawn
          row,    \* the row of tiles that is next
          hit     \* the tiles <<x, y>> that AddLine has given the light

drawVars == <<light, row, hit>>

-----------------------------------------------------------------------------
Half == TileSize \div 2
Floor(a) == a \div TileSize
Ceil(a) == - ((- a) \div TileSize)
Least(a, b) == IF a < b THEN a ELSE b
Most(a, b) == IF a > b THEN a ELSE b
Dist(a, b) == IF a > b THEN a - b ELSE b - a

StartY(l) == Floor(Most(l.y - l.r - Half, 0))

\* The width of the map where the height should be.
EndY(l) == Ceil(Least(l.y + l.r + Half, (Width - 1) * TileSize))

\* Mutant: the distance to the upper edge of the row is not made that to the
\* nearer one.
DeltaSquaredFar(l, i) == l.r * l.r - Dist(i * TileSize, l.y) * Dist(i * TileSize, l.y)

\* Mutant: the radius instead of the half-chord.
DeltaSquaredBox(l, i) == l.r * l.r

\* The square of delta in row i
DeltaSquared(l, i) ==
    LET tmpY == Dist(i * TileSize, l.y) - TileSize
    IN  l.r * l.r - tmpY * tmpY

\* sqrt(square) > a
RootExceeds(square, a) == a < 0 \/ square > a * a

\* The tiles of AddLine(i, startX, endX), clipped to the map: those k with
\* floor(x - delta - 0.5) <= k < ceil(x + delta + 0.5), that is
\* x - delta - 0.5 < k + 1 and k < x + delta + 0.5.
Line(l, i) ==
    LET square == DeltaSquared(l, i) IN
    {k \in 0 .. Width - 1 :
        /\ square >= 0
        /\ RootExceeds(square, l.x - Half - (k + 1) * TileSize)
        /\ RootExceeds(square, k * TileSize - l.x - Half)}

-----------------------------------------------------------------------------
Drawn == row >= EndY(light)

DrawInit ==
    /\ light \in Disks
    /\ row = StartY(light)
    /\ hit = {}

DrawLine ==
    /\ ~ Drawn
    /\ hit' = hit \cup {<<k, row>> : k \in Line(light, row)}
    /\ row' = row + 1
    /\ UNCHANGED light

Finished == Drawn /\ UNCHANGED drawVars

DrawNext == DrawLine \/ Finished

DrawSpec == DrawInit /\ [][DrawNext]_drawVars

-----------------------------------------------------------------------------
DrawTypeOK ==
    /\ light \in Disks
    /\ row \in 0 .. Most(Width, StartY(light))
    /\ \A t \in hit : t[1] \in 0 .. Width - 1 /\ t[2] \in 0 .. row - 1

\* The distance, squared, of the nearest point of tile t to the centre of l.
Apart(a, lo, hi) == IF a < lo THEN lo - a ELSE IF a > hi THEN a - hi ELSE 0
Squared(l, t) ==
    LET dx == Apart(l.x, t[1] * TileSize, (t[1] + 1) * TileSize)
        dy == Apart(l.y, t[2] * TileSize, (t[2] + 1) * TileSize)
    IN  dx * dx + dy * dy

Touches(l, t) == Squared(l, t) < l.r * l.r

MapTiles == (0 .. Width - 1) \X (0 .. Height - 1)

\* Deferred lighting reads the lights of a pixel from the list of its tile: a
\* light whose radius is at least 5/4 tiles is in the list of every tile that
\* its disk overlaps, although the chord is taken at a distance that may be on
\* the wrong side of the centre.
Covered ==
    Drawn /\ 4 * light.r >= 5 * TileSize =>
        {t \in MapTiles : Touches(light, t)} \subseteq hit

\* No light is listed where it is not needed: a tile with the light is less
\* than 5/4 tiles away from its disk.
Tight ==
    \A t \in hit : 16 * Squared(light, t) < (4 * light.r + 5 * TileSize) * (4 * light.r + 5 * TileSize)

\* `assert(y < m_height)' of AddLine (STLLRasterizer.h:81)
RowInMap == ~ Drawn => row < Height

=============================================================================
