--------------------------- MODULE DetectionSharding ---------------------------
(***************************************************************************)
(* The pure planning algorithm of full-raster detection: where the tiles   *)
(* of a raster axis start, and how the row-major sequence of tiles is cut  *)
(* into shards. The control plane plans a run with it, a shard Pod finds   *)
(* its tiles with it, and the finalizer rebuilds the plan with it.         *)
(***************************************************************************)
EXTENDS Integers, Sequences

\* What build_tile_starts accepts.
TilingAccepted(full, tile, overlap) ==
    /\ full \in Nat \ {0} /\ tile \in Nat \ {0}
    /\ overlap \in 0..tile - 1

\* One start every stride, while a whole tile fits.
RegularCount(full, tile, overlap)  == (full - tile) \div (tile - overlap) + 1
RegularStarts(full, tile, overlap) ==
    [k \in 1..RegularCount(full, tile, overlap) |-> (k - 1) * (tile - overlap)]

TileStartsWithoutEdge(full, tile, overlap) ==
    IF full <= tile THEN <<0>> ELSE RegularStarts(full, tile, overlap)

\* The last regular start is moved to the edge when the overlap it loses still
\* leaves no gap before it; otherwise the edge gets a tile of its own.
TileStarts(full, tile, overlap) ==
    IF full <= tile THEN <<0>>
    ELSE LET n        == RegularCount(full, tile, overlap)
             regular  == RegularStarts(full, tile, overlap)
             last     == full - tile
             distance == last - regular[n]
         IN IF distance = 0 THEN regular
            ELSE IF n > 1 /\ distance < overlap THEN [regular EXCEPT ![n] = last]
            ELSE Append(regular, last)

Columns(raster)   == TileStarts(raster.width, raster.tile, raster.overlap)
Rows(raster)      == TileStarts(raster.height, raster.tile, raster.overlap)
TileCount(raster) == Len(Columns(raster)) * Len(Rows(raster))

ShardCount(raster, perShard) == (TileCount(raster) + perShard - 1) \div perShard

\* The tile indices of a shard; the last shard may be short.
ShardTiles(raster, perShard, shard) ==
    LET first == shard * perShard
        left  == TileCount(raster) - first
    IN first .. first + (IF perShard < left THEN perShard ELSE left) - 1

\* The window of a tile index.
Tile(raster, index) ==
    LET columns == Len(Columns(raster))
        x == Columns(raster)[(index % columns) + 1]
        y == Rows(raster)[(index \div columns) + 1]
        Clip(size, offset) == IF raster.tile < size - offset THEN raster.tile ELSE size - offset
    IN [x |-> x, y |-> y, width |-> Clip(raster.width, x), height |-> Clip(raster.height, y)]

Pixels(tile) ==
    (tile.x .. tile.x + tile.width - 1) \X (tile.y .. tile.y + tile.height - 1)
=============================================================================
