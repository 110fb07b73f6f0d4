---------------------------- MODULE MCRasterizer ----------------------------
(* Model-checking values for Rasterizer: disks on a grid of quarter tiles, in *)
(* and around a small map.                                                   *)
EXTENDS Rasterizer

AllDisks ==
    {[x |-> x, y |-> y, r |-> r] :
        x \in -6 .. Width * TileSize + 6, y \in -6 .. Height * TileSize + 6, r \in 0 .. 14}

\* Centres inside the map, with a radius of one tile
InnerDisks ==
    {[x |-> x, y |-> y, r |-> TileSize] :
        x \in TileSize .. (Width - 1) * TileSize, y \in TileSize .. (Height - 1) * TileSize}
=============================================================================
