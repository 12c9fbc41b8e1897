--------------------------- MODULE MCDetectionFanOut ---------------------------
EXTENDS DetectionFanOut

CONSTANTS c1, c2, v1, v2

Raster(width, height, tile, overlap) ==
    [width |-> width, height |-> height, tile |-> tile, overlap |-> overlap]

\* Two shards, the second one short and with the tile that moved to the edge.
TwoShards == Raster(9, 3, 4, 2)

\* Every small raster whose plan exceeds the shard limit: planned, and refused.
TooLarge ==
    {r \in UNION {{Raster(width, height, tile, overlap) : overlap \in 0..tile - 1} :
                       width \in 1..12, height \in {1, 4, 7}, tile \in 1..4} :
        ShardCount(r, TilesPerShard) > MaximumShards}

SmallRasters == {TwoShards} \cup TooLarge
=============================================================================
