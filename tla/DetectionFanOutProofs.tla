-------------------------- MODULE DetectionFanOutProofs ------------------------
(***************************************************************************)
(* Theorems about DetectionSharding and DetectionFanOut. The planning of   *)
(* full-raster detection, for every raster size, tile size, overlap and    *)
(* shard size: the tiles of an axis leave no gap, and every tile of the    *)
(* plan belongs to exactly one shard. The two Jobs of a fanned-out run,    *)
(* for any numbers of shards and control workers, and any accidents.       *)
(***************************************************************************)
EXTENDS DetectionFanOut, TLAPS, FiniteSetTheorems

-----------------------------------------------------------------------------
(* Planning. *)

\* Arithmetic of strides and shards.
LEMMA Division ==
    ASSUME NEW a \in Nat, NEW b \in Nat \ {0}
    PROVE  \E q \in Nat : q = a \div b /\ q * b <= a /\ a < q * b + b
  <1>1. a \div b \in Nat /\ (a \div b) * b <= a /\ a < (a \div b) * b + b
    OBVIOUS
  <1> QED BY <1>1

\* A product grows with its factor.
LEMMA Monotone ==
    ASSUME NEW a \in Nat, NEW b \in Nat, NEW c \in Nat, a <= b
    PROVE  a * c <= b * c
  OBVIOUS

\* A product of natural numbers is one.
LEMMA ProductIsNat == ASSUME NEW a \in Nat, NEW b \in Nat PROVE a * b \in Nat
  OBVIOUS

\* One stride more.
LEMMA OneMore == ASSUME NEW a \in Nat, NEW b \in Nat PROVE (a + 1) * b = a * b + b
  OBVIOUS

\* Where a position before `end` falls among n intervals of one stride each
\* that reach `end`.
LEMMA Interval ==
    ASSUME NEW stride \in Nat \ {0}, NEW n \in Nat \ {0}, NEW end \in Nat,
           end < (n - 1) * stride + stride,
           NEW pixel \in Nat, pixel < end
    PROVE  \E q \in 0..n - 1 : q * stride <= pixel /\ pixel < q * stride + stride
  <1>1. PICK q \in Nat : q * stride <= pixel /\ pixel < q * stride + stride
    BY Division
  <1>2. q < n
    <2>1. SUFFICES ASSUME n <= q PROVE FALSE
      OBVIOUS
    <2>2. n * stride <= q * stride
      BY <2>1, Monotone
    <2>3. PICK m \in Nat : n = m + 1
      <3>1. n - 1 \in Nat /\ n = (n - 1) + 1
        OBVIOUS
      <3> QED BY <3>1
    <2>4. n * stride = m * stride + stride /\ n - 1 = m
      BY <2>3, OneMore
    <2>5. m * stride \in Nat /\ q * stride \in Nat /\ n * stride \in Nat
      BY <2>3, ProductIsNat
    <2>6. end < n * stride
      BY <2>4
    <2> QED BY <1>1, <2>2, <2>5, <2>6
  <1> QED BY <1>1, <1>2

\* The regular starts of an axis larger than a tile: one every stride, the last
\* within a stride of the last position that fits a whole tile.
RegularAxis(full, tile, overlap, stride, last, n, regular) ==
    /\ stride \in Nat \ {0} /\ stride = tile - overlap
    /\ last \in Nat /\ last = full - tile
    /\ n \in Nat \ {0} /\ n = RegularCount(full, tile, overlap)
    /\ regular \in Seq(Nat) /\ regular = RegularStarts(full, tile, overlap)
    /\ Len(regular) = n
    /\ \A k \in 1..n : regular[k] = (k - 1) * stride
    /\ regular[n] <= last /\ last < regular[n] + stride

\* Such starts are those the algorithm lists.
LEMMA Regular ==
    ASSUME NEW full \in Nat, NEW tile \in Nat \ {0}, NEW overlap \in 0..tile - 1,
           full > tile
    PROVE  \E stride, last, n, regular :
              RegularAxis(full, tile, overlap, stride, last, n, regular)
  <1>1. PICK stride \in Nat \ {0}, last \in Nat : stride = tile - overlap /\ last = full - tile
    OBVIOUS
  <1>2. PICK q \in Nat : q = last \div stride /\ q * stride <= last /\ last < q * stride + stride
    BY Division
  <1>3. PICK n \in Nat \ {0} : n = q + 1
    OBVIOUS
  <1>4. n = RegularCount(full, tile, overlap) /\ n - 1 = q
    BY <1>1, <1>2, <1>3 DEF RegularCount
  <1>5. PICK regular : regular = [k \in 1..n |-> (k - 1) * stride]
    OBVIOUS
  <1>6. regular = RegularStarts(full, tile, overlap)
    BY <1>1, <1>4, <1>5 DEF RegularStarts
  <1>7. \A k \in 1..n : (k - 1) * stride \in Nat
    BY ProductIsNat
  <1>8. regular \in Seq(Nat) /\ Len(regular) = n
    BY <1>5, <1>7
  <1>9. \A k \in 1..n : regular[k] = (k - 1) * stride
    BY <1>5
  <1>10. regular[n] = q * stride
    BY <1>4, <1>9
  <1>11. RegularAxis(full, tile, overlap, stride, last, n, regular)
    BY <1>1, <1>2, <1>4, <1>6, <1>8, <1>9, <1>10 DEF RegularAxis
  <1> QED BY <1>11

\* What the three shapes of the result leave of the regular starts: a start at
\* the edge, and every regular start except, when it was moved, the last one,
\* which then leaves a start less than an overlap further on.
LEMMA Shapes ==
    ASSUME NEW full \in Nat, NEW tile \in Nat \ {0}, NEW overlap \in 0..tile - 1,
           full > tile,
           NEW stride, NEW last, NEW n, NEW regular,
           RegularAxis(full, tile, overlap, stride, last, n, regular),
           NEW starts, starts = TileStarts(full, tile, overlap)
    PROVE  /\ \E k \in DOMAIN starts : starts[k] = last
           /\ \/ \A k \in 1..n : k \in DOMAIN starts /\ starts[k] = regular[k]
              \/ /\ n > 1 /\ last - regular[n] < overlap
                 /\ \A k \in 1..n - 1 : k \in DOMAIN starts /\ starts[k] = regular[k]
  <1>1. \/ last - regular[n] = 0 /\ starts = regular
        \/ /\ n > 1 /\ last - regular[n] < overlap
           /\ starts = [regular EXCEPT ![n] = last]
        \/ starts = Append(regular, last)
    BY DEF TileStarts, RegularAxis
  <1>2. /\ last \in Nat /\ regular[n] \in Nat /\ n \in Nat \ {0} /\ n \in 1..n
        /\ regular \in Seq(Nat) /\ Len(regular) = n /\ DOMAIN regular = 1..n
    BY DEF RegularAxis
  <1>3. CASE last - regular[n] = 0 /\ starts = regular
    <2>1. regular[n] = last
      BY <1>2, <1>3
    <2> QED BY <1>2, <1>3, <2>1
  <1>4. CASE /\ n > 1 /\ last - regular[n] < overlap
             /\ starts = [regular EXCEPT ![n] = last]
    <2>1. DOMAIN starts = 1..n /\ starts[n] = last
      BY <1>2, <1>4
    <2>2. \A k \in 1..n - 1 : k \in DOMAIN starts /\ starts[k] = regular[k]
      BY <1>2, <1>4
    <2> QED BY <1>2, <1>4, <2>1, <2>2
  <1>5. CASE starts = Append(regular, last)
    <2>1. n + 1 \in DOMAIN starts /\ starts[n + 1] = last
      BY <1>2, <1>5
    <2>2. \A k \in 1..n : k \in DOMAIN starts /\ starts[k] = regular[k]
      BY <1>2, <1>5
    <2> QED BY <2>1, <2>2
  <1> QED BY <1>1, <1>3, <1>4, <1>5

\* build_tile_starts leaves no gap: every pixel of an axis lies in a tile,
\* whatever the axis, the tile and the overlap.
THEOREM TilesCover ==
    ASSUME NEW full \in Nat \ {0}, NEW tile \in Nat \ {0}, NEW overlap \in 0..tile - 1,
           NEW starts, starts = TileStarts(full, tile, overlap),
           NEW pixel \in 0..full - 1
    PROVE  \E k \in DOMAIN starts : starts[k] <= pixel /\ pixel < starts[k] + tile
  <1>1. CASE full <= tile
    <2>1. starts = <<0>> /\ 1 \in DOMAIN <<0>> /\ <<0>>[1] = 0
      BY <1>1 DEF TileStarts
    <2>2. 1 \in DOMAIN starts /\ starts[1] <= pixel /\ pixel < starts[1] + tile
      BY <1>1, <2>1
    <2> QED BY <2>2
  <1>2. CASE full > tile
    <2>1. PICK stride, last, n, regular :
            RegularAxis(full, tile, overlap, stride, last, n, regular)
      BY <1>2, Regular
    <2>2. /\ n \in Nat \ {0} /\ regular \in Seq(Nat) /\ Len(regular) = n
          /\ \A k \in 1..n : regular[k] = (k - 1) * stride
          /\ regular[n] <= last /\ last < regular[n] + stride
      BY <2>1 DEF RegularAxis
    <2>3. /\ \E k \in DOMAIN starts : starts[k] = last
          /\ \/ \A k \in 1..n : k \in DOMAIN starts /\ starts[k] = regular[k]
             \/ /\ n > 1 /\ last - regular[n] < overlap
                /\ \A k \in 1..n - 1 : k \in DOMAIN starts /\ starts[k] = regular[k]
      BY <1>2, <2>1, Shapes
    <2>4. stride \in Nat \ {0} /\ stride + overlap = tile /\ last \in Nat /\ last + tile = full
      BY <1>2, <2>1 DEF RegularAxis
    <2>5. regular[n] \in Nat /\ regular[n] = (n - 1) * stride
      BY <2>2
    <2>6. CASE pixel >= last
      <3>1. PICK k \in DOMAIN starts : starts[k] = last
        BY <2>3
      <3>2. starts[k] <= pixel /\ pixel < starts[k] + tile
        BY <2>4, <2>6, <3>1
      <3> QED BY <3>2
    <2>7. CASE pixel < last
      <3>0. pixel \in Nat /\ last < (n - 1) * stride + stride
        BY <2>2, <2>5
      <3>1. PICK q \in 0..n - 1 : q * stride <= pixel /\ pixel < q * stride + stride
        BY <2>2, <2>4, <2>7, <3>0, Interval
      <3>2. q + 1 \in 1..n /\ regular[q + 1] = q * stride /\ q * stride \in Nat
        BY <2>2, <2>4, <3>1, ProductIsNat
      <3>3. regular[q + 1] <= pixel /\ pixel < regular[q + 1] + tile
        BY <2>4, <3>1, <3>2
      <3>4. CASE q + 1 \in DOMAIN starts /\ starts[q + 1] = regular[q + 1]
        BY <3>3, <3>4
      \* the last regular start was moved past the pixel: the tile before it is
      \* an overlap longer than a stride
      <3>5. CASE /\ n > 1 /\ last - regular[n] < overlap /\ q = n - 1
                 /\ \A k \in 1..n - 1 : k \in DOMAIN starts /\ starts[k] = regular[k]
        <4>1. PICK m \in Nat : n = m + 2
          <5>1. n - 2 \in Nat /\ n = (n - 2) + 2
            BY <2>2, <3>5
          <5> QED BY <5>1
        <4>2. regular[m + 1] = m * stride /\ m * stride \in Nat
          BY <2>2, <2>4, <4>1, ProductIsNat
        <4>3. (m + 1) * stride = m * stride + stride /\ q = m + 1
          BY <2>4, <3>5, <4>1, OneMore
        <4>4. regular[n] = regular[m + 1] + stride
          BY <4>1, <4>2, <4>3, <2>5
        <4>5. m + 1 \in DOMAIN starts /\ starts[m + 1] = regular[m + 1]
          BY <3>5, <4>1
        <4>6. regular[n] <= pixel /\ pixel < last
          BY <2>7, <3>3, <3>5, <4>1
        <4>7. starts[m + 1] <= pixel /\ pixel < starts[m + 1] + tile
          BY <2>4, <2>5, <3>5, <4>2, <4>4, <4>5, <4>6
        <4> QED BY <4>5, <4>7
      <3> QED BY <2>2, <2>3, <3>2, <3>4, <3>5
    <2> QED BY <2>4, <2>6, <2>7
  <1> QED BY <1>1, <1>2

\* The shards of a plan partition its tiles: every tile index lies in the shard
\* its quotient names, and in no other, the short last shard included.
THEOREM ShardsPartition ==
    ASSUME NEW image, NEW perShard \in Nat \ {0},
           NEW count \in Nat, count = TileCount(image),
           NEW index \in 0..count - 1
    PROVE  \E shard \in 0..ShardCount(image, perShard) - 1 :
               /\ index \in ShardTiles(image, perShard, shard)
               /\ \A other \in Nat : index \in ShardTiles(image, perShard, other) => other = shard
  <1>0. index \in Nat
    OBVIOUS
  <1>1. PICK shard \in Nat : shard * perShard <= index /\ index < shard * perShard + perShard
    BY <1>0, Division
  <1>2. shard * perShard \in Nat
    BY ProductIsNat
  <1>3. index \in ShardTiles(image, perShard, shard)
    BY <1>1, <1>2 DEF ShardTiles
  <1>4. shard < ShardCount(image, perShard)
    <2>1. PICK total \in Nat : /\ total = (count + perShard - 1) \div perShard
                               /\ count + perShard - 1 < total * perShard + perShard
      <3>1. count + perShard - 1 \in Nat
        OBVIOUS
      <3> QED BY <3>1, Division
    <2>2. total = ShardCount(image, perShard)
      BY <2>1 DEF ShardCount
    <2>3. SUFFICES ASSUME total <= shard PROVE FALSE
      BY <2>2
    <2>4. total * perShard <= shard * perShard /\ total * perShard \in Nat
      BY <2>3, Monotone, ProductIsNat
    <2> QED BY <1>1, <1>2, <2>1, <2>4
  <1>5. ASSUME NEW other \in Nat, index \in ShardTiles(image, perShard, other)
        PROVE  other = shard
    <2>1. other * perShard \in Nat
      BY ProductIsNat
    <2>2. other * perShard <= index /\ index < other * perShard + perShard
      BY <1>5, <2>1 DEF ShardTiles
    <2>3. CASE other < shard
      <3>1. (other + 1) * perShard <= shard * perShard
        BY <2>3, Monotone
      <3>2. (other + 1) * perShard = other * perShard + perShard
        BY OneMore
      <3> QED BY <1>1, <1>2, <2>1, <2>2, <3>1, <3>2
    <2>4. CASE shard < other
      <3>1. (shard + 1) * perShard <= other * perShard
        BY <2>4, Monotone
      <3>2. (shard + 1) * perShard = shard * perShard + perShard
        BY OneMore
      <3> QED BY <1>1, <1>2, <2>1, <2>2, <3>1, <3>2
    <2> QED BY <2>3, <2>4
  <1>6. ShardCount(image, perShard) - 1 \in Int /\ shard \in 0..ShardCount(image, perShard) - 1
    <2>1. count + perShard - 1 \in Nat
      OBVIOUS
    <2>2. ShardCount(image, perShard) \in Nat
      BY <2>1, Division DEF ShardCount
    <2> QED BY <1>4, <2>2
  <1> QED BY <1>3, <1>5, <1>6

\* The starts of an axis: at least one, and none beyond the axis.
LEMMA StartsInside ==
    ASSUME NEW full \in Nat \ {0}, NEW tile \in Nat \ {0}, NEW overlap \in 0..tile - 1,
           NEW starts, starts = TileStarts(full, tile, overlap)
    PROVE  /\ starts \in Seq(Nat) /\ Len(starts) \in Nat \ {0}
           /\ \A k \in 1..Len(starts) : starts[k] < full
  <1>1. CASE full <= tile
    <2>1. starts = <<0>>
      BY <1>1 DEF TileStarts
    <2> QED BY <2>1
  <1>2. CASE full > tile
    <2>1. PICK stride, last, n, regular :
            RegularAxis(full, tile, overlap, stride, last, n, regular)
      BY <1>2, Regular
    <2>2. /\ stride \in Nat \ {0} /\ last \in Nat /\ last < full
          /\ n \in Nat \ {0} /\ regular \in Seq(Nat) /\ Len(regular) = n
          /\ \A k \in 1..n : regular[k] = (k - 1) * stride
          /\ regular[n] <= last
      BY <1>2, <2>1 DEF RegularAxis
    <2>3. ASSUME NEW k \in 1..n
          PROVE  regular[k] \in Nat /\ regular[k] <= last
      <3>1. (k - 1) * stride <= (n - 1) * stride
        BY <2>2, Monotone
      <3>2. regular[k] = (k - 1) * stride /\ regular[n] = (n - 1) * stride
        BY <2>2
      <3>3. regular[k] \in Nat /\ regular[n] \in Nat
        BY <2>2
      <3> QED BY <2>2, <3>1, <3>2, <3>3
    <2>0. \A k \in 1..n : regular[k] \in Nat /\ regular[k] < full
      BY <2>2, <2>3
    <2>4. \/ starts = regular
          \/ starts = [regular EXCEPT ![n] = last]
          \/ starts = Append(regular, last)
      BY <1>2, <2>1 DEF TileStarts, RegularAxis
    <2>5. CASE starts = regular
      BY <2>0, <2>2, <2>5
    <2>6. CASE starts = [regular EXCEPT ![n] = last]
      <3>1. starts \in Seq(Nat) /\ Len(starts) = n
        BY <2>2, <2>6
      <3>2. \A k \in 1..n : starts[k] = last \/ starts[k] = regular[k]
        BY <2>2, <2>6
      <3>3. \A k \in 1..n : starts[k] < full
        <4>1. last < full
          BY <2>2
        <4> QED BY <2>0, <3>2, <4>1
      <3> QED BY <2>2, <3>1, <3>3
    <2>7. CASE starts = Append(regular, last)
      <3>1. starts \in Seq(Nat) /\ Len(starts) = n + 1
        BY <2>2, <2>7
      <3>2. \A k \in 1..n + 1 : starts[k] = last \/ (k \in 1..n /\ starts[k] = regular[k])
        BY <2>2, <2>7
      <3>3. \A k \in 1..n + 1 : starts[k] < full
        <4>1. last < full
          BY <2>2
        <4> QED BY <2>0, <3>2, <4>1
      <3> QED BY <2>2, <3>1, <3>3
    <2> QED BY <2>4, <2>5, <2>6, <2>7
  <1> QED BY <1>1, <1>2

\* The tile at a start, clipped at the edge of its axis.
Window(start, full, tile) ==
    start .. start + (IF tile < full - start THEN tile ELSE full - start) - 1

\* The clipped tiles of an axis take its positions and no others.
LEMMA AxisWhole ==
    ASSUME NEW full \in Nat \ {0}, NEW tile \in Nat \ {0}, NEW overlap \in 0..tile - 1,
           NEW starts, starts = TileStarts(full, tile, overlap)
    PROVE  /\ \A k \in 1..Len(starts) : Window(starts[k], full, tile) \subseteq 0..full - 1
           /\ \A position \in 0..full - 1 :
                  \E k \in 1..Len(starts) : position \in Window(starts[k], full, tile)
  <1>1. /\ starts \in Seq(Nat) /\ DOMAIN starts = 1..Len(starts)
        /\ \A k \in 1..Len(starts) : starts[k] \in Nat /\ starts[k] < full
    <2>1. starts \in Seq(Nat) /\ \A k \in 1..Len(starts) : starts[k] < full
      BY StartsInside
    <2> QED BY <2>1
  <1>2. ASSUME NEW k \in 1..Len(starts)
        PROVE  Window(starts[k], full, tile) \subseteq 0..full - 1
    BY <1>1 DEF Window
  <1>3. ASSUME NEW position \in 0..full - 1
        PROVE  \E k \in 1..Len(starts) : position \in Window(starts[k], full, tile)
    <2>1. PICK k \in DOMAIN starts : starts[k] <= position /\ position < starts[k] + tile
      BY TilesCover
    <2>2. position \in Window(starts[k], full, tile)
      BY <1>1, <2>1 DEF Window
    <2> QED BY <1>1, <2>1, <2>2
  <1> QED BY <1>2, <1>3

\* The quotient and the remainder of a division are unique.
LEMMA RowAndColumn ==
    ASSUME NEW columns \in Nat \ {0}, NEW row \in Nat, NEW column \in 0..columns - 1
    PROVE  /\ (row * columns + column) \div columns = row
           /\ (row * columns + column) % columns = column
  <1>0. row * columns \in Nat
    BY ProductIsNat
  <1>1. PICK index \in Nat : index = row * columns + column
    BY <1>0
  <1>2. PICK q \in Nat : q = index \div columns /\ q * columns <= index /\ index < q * columns + columns
    BY Division
  <1>3. q * columns \in Nat
    BY ProductIsNat
  <1>4. q = row
    <2>1. CASE q < row
      <3>1. (q + 1) * columns <= row * columns /\ (q + 1) * columns = q * columns + columns
        BY <2>1, Monotone, OneMore
      <3> QED BY <1>0, <1>1, <1>2, <1>3, <3>1
    <2>2. CASE row < q
      <3>1. (row + 1) * columns <= q * columns /\ (row + 1) * columns = row * columns + columns
        BY <2>2, Monotone, OneMore
      <3> QED BY <1>0, <1>1, <1>2, <1>3, <3>1
    <2> QED BY <2>1, <2>2
  <1>5. index = (index \div columns) * columns + (index % columns)
    OBVIOUS
  <1>6. index % columns = column
    <2>1. index % columns \in Nat
      OBVIOUS
    <2> QED BY <1>0, <1>1, <1>2, <1>4, <1>5, <2>1
  <1> QED BY <1>1, <1>2, <1>4, <1>6

\* Every index below rows * columns is that of a row and a column.
LEMMA IndexInside ==
    ASSUME NEW columns \in Nat \ {0}, NEW rows \in Nat \ {0}, NEW index \in 0..columns * rows - 1
    PROVE  index % columns \in 0..columns - 1 /\ index \div columns \in 0..rows - 1
  <1>0. columns * rows \in Nat /\ columns * rows = rows * columns /\ index \in Nat
    BY ProductIsNat
  <1>1. index % columns \in 0..columns - 1
    BY <1>0
  <1>2. PICK q \in Nat : q = index \div columns /\ q * columns <= index
    BY <1>0, Division
  <1>3. q < rows
    <2>1. SUFFICES ASSUME rows <= q PROVE FALSE
      OBVIOUS
    <2>2. rows * columns <= q * columns /\ q * columns \in Nat
      BY <2>1, Monotone, ProductIsNat
    <2> QED BY <1>0, <1>2, <2>2
  <1> QED BY <1>1, <1>2, <1>3

\* What a plan is made for: build_tile_starts accepts both axes.
Plannable(image) ==
    /\ TilingAccepted(image.width, image.tile, image.overlap)
    /\ TilingAccepted(image.height, image.tile, image.overlap)

\* A plan has tiles and shards.
LEMMA PlanCounts ==
    ASSUME NEW image, Plannable(image)
    PROVE  /\ Len(Columns(image)) \in Nat \ {0} /\ Len(Rows(image)) \in Nat \ {0}
           /\ TileCount(image) \in Nat
           /\ \A perShard \in Nat \ {0} : ShardCount(image, perShard) \in Nat
  <1>1. Len(Columns(image)) \in Nat \ {0} /\ Len(Rows(image)) \in Nat \ {0}
    BY StartsInside DEF Plannable, TilingAccepted, Columns, Rows
  <1>2. TileCount(image) \in Nat
    BY <1>1, ProductIsNat DEF TileCount
  <1>3. ASSUME NEW perShard \in Nat \ {0}
        PROVE  ShardCount(image, perShard) \in Nat
    <2>1. TileCount(image) + perShard - 1 \in Nat
      BY <1>2
    <2> QED BY <2>1, Division DEF ShardCount
  <1> QED BY <1>1, <1>2, <1>3

\* The pixels of a tile are those of a window of each axis.
LEMMA TilePixels ==
    ASSUME NEW image, NEW index
    PROVE  Pixels(Tile(image, index)) =
               Window(Columns(image)[(index % Len(Columns(image))) + 1], image.width, image.tile)
               \X Window(Rows(image)[(index \div Len(Columns(image))) + 1], image.height, image.tile)
  BY DEF Pixels, Tile, Window

\* The tiles of a plan take every pixel of the raster and none outside it,
\* whatever its size, the tile and the overlap (build_tile_windows).
THEOREM RasterCovered ==
    ASSUME NEW image, Plannable(image)
    PROVE  UNION {Pixels(Tile(image, index)) : index \in 0..TileCount(image) - 1}
               = (0..image.width - 1) \X (0..image.height - 1)
  <1> DEFINE columns == Len(Columns(image))
             rows    == Len(Rows(image))
             Across(k) == Window(Columns(image)[k], image.width, image.tile)
             Down(k)   == Window(Rows(image)[k], image.height, image.tile)
  <1>0. columns \in Nat \ {0} /\ rows \in Nat \ {0} /\ TileCount(image) = columns * rows
    BY PlanCounts DEF TileCount
  <1>1. /\ \A k \in 1..columns : Across(k) \subseteq 0..image.width - 1
        /\ \A x \in 0..image.width - 1 : \E k \in 1..columns : x \in Across(k)
    BY AxisWhole DEF Plannable, TilingAccepted, Columns
  <1>2. /\ \A k \in 1..rows : Down(k) \subseteq 0..image.height - 1
        /\ \A y \in 0..image.height - 1 : \E k \in 1..rows : y \in Down(k)
    BY AxisWhole DEF Plannable, TilingAccepted, Rows
  <1>3. ASSUME NEW index
        PROVE  Pixels(Tile(image, index)) =
                   Across((index % columns) + 1) \X Down((index \div columns) + 1)
    BY TilePixels
  <1> HIDE DEF columns, rows, Across, Down
  <1>4. ASSUME NEW index \in 0..TileCount(image) - 1
        PROVE  Pixels(Tile(image, index)) \subseteq (0..image.width - 1) \X (0..image.height - 1)
    <2>1. index % columns \in 0..columns - 1 /\ index \div columns \in 0..rows - 1
      BY <1>0, IndexInside
    <2>2. (index % columns) + 1 \in 1..columns /\ (index \div columns) + 1 \in 1..rows
      BY <1>0, <2>1
    <2>3. /\ Across((index % columns) + 1) \subseteq 0..image.width - 1
          /\ Down((index \div columns) + 1) \subseteq 0..image.height - 1
      BY <1>1, <1>2, <2>2
    <2> QED BY <1>3, <2>3
  <1>5. ASSUME NEW x \in 0..image.width - 1, NEW y \in 0..image.height - 1
        PROVE  \E index \in 0..TileCount(image) - 1 : <<x, y>> \in Pixels(Tile(image, index))
    <2>1. PICK i \in 1..columns, j \in 1..rows : x \in Across(i) /\ y \in Down(j)
      BY <1>1, <1>2
    <2>2. PICK column \in 0..columns - 1, row \in 0..rows - 1 : column + 1 = i /\ row + 1 = j
      <3>1. i - 1 \in 0..columns - 1 /\ (i - 1) + 1 = i /\ j - 1 \in 0..rows - 1 /\ (j - 1) + 1 = j
        BY <1>0
      <3> QED BY <3>1
    <2>3. PICK index : index = row * columns + column
      OBVIOUS
    <2>4. index % columns = column /\ index \div columns = row
      <3>1. row \in Nat
        BY <1>0
      <3>2. /\ (row * columns + column) \div columns = row
            /\ (row * columns + column) % columns = column
        BY <1>0, <3>1, RowAndColumn
      <3> QED BY <2>3, <3>2
    <2>5. index \in 0..TileCount(image) - 1
      <3>1. row * columns \in Nat /\ (row + 1) * columns = row * columns + columns
        BY <1>0, ProductIsNat, OneMore
      <3>2. (row + 1) * columns <= rows * columns /\ rows * columns = columns * rows
        BY <1>0, Monotone
      <3>3. rows * columns \in Nat
        BY <1>0, ProductIsNat
      <3> QED BY <1>0, <2>3, <3>1, <3>2, <3>3
    <2>6. <<x, y>> \in Across(i) \X Down(j)
      BY <2>1
    <2> QED BY <1>3, <2>2, <2>4, <2>5, <2>6
  <1> QED BY <1>4, <1>5

\* The shards of a plan hold its tiles and no others.
LEMMA ShardsWhole ==
    ASSUME NEW image, Plannable(image), NEW perShard \in Nat \ {0}
    PROVE  UNION {ShardTiles(image, perShard, s) : s \in 0..ShardCount(image, perShard) - 1}
               = 0..TileCount(image) - 1
  <1>0. TileCount(image) \in Nat /\ ShardCount(image, perShard) \in Nat
    BY PlanCounts
  <1>1. ASSUME NEW s \in 0..ShardCount(image, perShard) - 1,
               NEW index \in ShardTiles(image, perShard, s)
        PROVE  index \in 0..TileCount(image) - 1
    <2>1. s * perShard \in Nat
      BY <1>0, ProductIsNat
    <2> QED BY <1>0, <2>1 DEF ShardTiles
  <1>2. \A index \in 0..TileCount(image) - 1 :
           \E s \in 0..ShardCount(image, perShard) - 1 : index \in ShardTiles(image, perShard, s)
    BY <1>0, ShardsPartition
  <1> QED BY <1>1, <1>2

\* No tile is in two shards.
LEMMA ShardsDisjoint ==
    ASSUME NEW image, Plannable(image), NEW perShard \in Nat \ {0},
           NEW s \in 0..ShardCount(image, perShard) - 1,
           NEW t \in 0..ShardCount(image, perShard) - 1, s # t
    PROVE  ShardTiles(image, perShard, s) \cap ShardTiles(image, perShard, t) = {}
  <1>0. TileCount(image) \in Nat /\ ShardCount(image, perShard) \in Nat /\ s \in Nat /\ t \in Nat
    BY PlanCounts
  <1>1. ASSUME NEW index \in ShardTiles(image, perShard, s), index \in ShardTiles(image, perShard, t)
        PROVE  FALSE
    <2>1. index \in 0..TileCount(image) - 1
      BY <1>1, ShardsWhole
    <2> QED BY <1>0, <1>1, <2>1, ShardsPartition
  <1> QED BY <1>1

-----------------------------------------------------------------------------
(* Types, and the names of the Jobs. *)

JobRow == [state : JobStates, units : 0..Parallelism, incarnation : Nat,
           done : SUBSET Shards, deleting : BOOLEAN]

TypeInv ==
    /\ FanOutTypeOK
    /\ raster \in Rasters
    /\ kjob \in [Kinds -> JobRow]
    /\ IsFiniteSet(pods)
    /\ run.status \in ActiveStatuses => run.attempts <= MaximumDispatchAttempts
    /\ run.phase # "unplanned" => ~Refused

\* The Job name of a run is that of its phase, and the first one is not
\* forgotten in the second.
Named ==
    /\ run.phase = "unplanned" => run.jobName = "none" /\ ~run.shardJob
    /\ run.phase = "shards" => run.jobName = "shards" /\ ~run.shardJob
    /\ run.phase = "finalizer" => run.jobName # "shards" /\ run.shardJob

\* Whatever exists or is in hand has a name that a cleanup looks at.
NameInv ==
    /\ Named
    /\ \A kind \in Kinds : kjob[kind].state # "absent" => kind \in CleanupJobNames
    /\ \A p \in pods : p.kind \in CleanupJobNames
    /\ \A c \in Controllers : ctl[c].phase # "idle" => ctl[c].kind \in CleanupJobNames

\* What a control worker remembers of the row it reconciles: only an active run
\* is looked at otherwise than for its cleanup.
Memory(c) ==
    Reconciling(c) =>
        /\ ctl[c].cleanup \/ (ctl[c].status \in ActiveStatuses /\ ~ctl[c].halted)
        /\ ctl[c].cleanup => ctl[c].phase # "creating"
        /\ ctl[c].seen \in {"clean", "unclean"} => ctl[c].cleanup
        /\ ctl[c].seen \in {"missing", "missing_error", "active", "complete", "failed"}
              => ~ctl[c].cleanup

MemoryInv == \A c \in Controllers : Memory(c)

\* The numbers of a plan.
LEMMA PlanNumbers ==
    ASSUME TypeInv
    PROVE  /\ Planned \in Nat /\ PlanShards \subseteq Nat
           /\ ~Refused => PlanShards \subseteq Shards
           /\ 0 \in Shards
  <1>1. Plannable(raster) /\ TilesPerShard \in Nat \ {0} /\ MaximumShards \in Nat \ {0}
    BY FanOutAssumption DEF TypeInv, Plannable
  <1>2. Planned \in Nat
    BY <1>1, PlanCounts DEF Planned
  <1> QED BY <1>1, <1>2 DEF PlanShards, Refused, Shards

\* The actions of a control worker that only it and the cluster notice.
Requests(c) ==
    \/ Dispatch(c) \/ DispatchFails(c) \/ ObserveCleanup(c) \/ ObserveJob(c) \/ ObserveFails(c)
    \/ RecreateJob(c) \/ RecreateJobFails(c) \/ ControllerCrash(c) \/ TakeOver(c) \/ TickEnds(c)

\* Who writes the row of the run.
RunMoves ==
    \/ \E c \in Controllers :
          Reserve(c) \/ RecordDispatchError(c) \/ ReconcileClaim(c) \/ ReconcileApply(c)
    \/ LeaseExpires
    \/ \E p \in pods :
          LoadContext(p) \/ StopsWhenCancelled(p) \/ LateHeartbeat(p) \/ Publish(p) \/ MarkFailed(p)

\* Nobody else does.
LEMMA RunWriters ==
    ASSUME [Next]_vars
    PROVE  run' = run \/ RunMoves
  <1>1. ASSUME NEW c \in Controllers, Requests(c)
        PROVE  run' = run
    BY <1>1 DEF Requests, Dispatch, DispatchFails, ObserveCleanup, ObserveJob, ObserveFails, RecreateJob,
       RecreateJobFails, ControllerCrash, TakeOver, TickEnds, database
  <1>2. ASSUME NEW p \in pods, \/ RecordReceipt(p) \/ Aggregate(p) \/ PodSucceeds(p)
                               \/ HandlerRaises(p) \/ PodKilled(p) \/ PodTerminated(p)
        PROVE  run' = run
    BY <1>2 DEF RecordReceipt, Aggregate, PodSucceeds, HandlerRaises, PodKilled, PodTerminated,
       ClusterUnchanged, database
  <1>3. ASSUME NEW kind \in Kinds, ClusterStep(kind)
        PROVE  run' = run
    BY <1>3 DEF ClusterStep, StartPod, JobRemoved, JobVanishes, ClusterUnchanged, database
  <1>4. CASE ReserveOther \/ ReleaseOther \/ CancelMission \/ UNCHANGED vars
    BY <1>4 DEF ReserveOther, ReleaseOther, CancelMission, vars, database
  <1> QED BY <1>1, <1>2, <1>3, <1>4 DEF Next, ControllerStep, PodStep, Requests, RunMoves


\* What a reservation grants is what is left, and no more than is asked for.
LEMMA Granted ==
    ASSUME TypeInv
    PROVE  /\ RequestedUnits \in 0..Parallelism
           /\ AtMost(RequestedUnits, GlobalActive - others) \in Int
           /\ AtMost(RequestedUnits, GlobalActive - others) <= RequestedUnits
           /\ AtMost(RequestedUnits, GlobalActive - others) <= GlobalActive - others
  <1>1. Planned \in Nat /\ Parallelism \in Nat \ {0} /\ GlobalActive - others \in Int
    BY PlanNumbers, FanOutAssumption DEF TypeInv, FanOutTypeOK
  <1>2. RequestedUnits \in 0..Parallelism
    BY <1>1 DEF RequestedUnits, AtMost
  <1> QED BY <1>1, <1>2 DEF AtMost

\* The row with another Job name, number of attempts and status.
LEMMA RowFields ==
    ASSUME NEW row \in RunRow, NEW name \in Kinds \cup {"none"}, NEW attempts \in Nat,
           NEW status \in ActiveStatuses \cup TerminalStatuses
    PROVE  [row EXCEPT !.jobName = name, !.attempts = attempts, !.status = status] \in RunRow
  BY DEF RunRow

\* An observation changes the row of a run that is as it was remembered.
LEMMA AppliedRow ==
    ASSUME NEW c \in Controllers, Memory(c), ctl[c].phase = "applying", NEW row \in RunRow,
           MaximumDispatchAttempts \in Nat \ {0}, row.status = ctl[c].status
    PROVE  /\ AppliedTo(row, c) \in RunRow
           /\ \/ AppliedTo(row, c).attempts \in {0, row.attempts}
              \/ /\ row.status \in ActiveStatuses
                 /\ AppliedTo(row, c).attempts = row.attempts + 1
                 /\ row.attempts >= MaximumDispatchAttempts => AppliedTo(row, c).status = "failed"
           /\ AppliedTo(row, c).status \in ActiveStatuses => row.status \in ActiveStatuses
  <1>0. /\ ctl[c].cleanup \/ (ctl[c].status \in ActiveStatuses /\ ~ctl[c].halted)
        /\ ctl[c].seen \in {"clean", "unclean"} => ctl[c].cleanup
        /\ ctl[c].seen \in {"missing", "missing_error", "active", "complete", "failed"}
              => ~ctl[c].cleanup
    BY DEF Memory, Reconciling
  <1>1. CASE ctl[c].seen \in {"missing", "missing_error"}
    <2>1. row.attempts \in Nat /\ row.status \in ActiveStatuses
      BY <1>0, <1>1 DEF RunRow
    <2> DEFINE lost   == row.attempts + 1
               status == IF \/ lost > MaximumDispatchAttempts
                            \/ ctl[c].seen = "missing_error" /\ lost >= MaximumDispatchAttempts
                         THEN "failed" ELSE row.status
    <2>2. AppliedTo(row, c) = [row EXCEPT !.attempts = lost, !.status = status]
      BY <1>1 DEF AppliedTo
    <2>3. lost \in Nat /\ (row.attempts >= MaximumDispatchAttempts => lost > MaximumDispatchAttempts)
      BY <2>1
    <2>4. /\ status \in {"failed", row.status}
          /\ row.attempts >= MaximumDispatchAttempts => status = "failed"
      BY <2>3
    <2> HIDE DEF lost, status
    <2>5. [row EXCEPT !.attempts = lost, !.status = status] \in RunRow
      BY <2>1, <2>3, <2>4 DEF RunRow, TerminalStatuses
    <2>6. /\ [row EXCEPT !.attempts = lost, !.status = status].attempts = lost
          /\ [row EXCEPT !.attempts = lost, !.status = status].status = status
      BY DEF RunRow
    <2> QED BY <2>1, <2>2, <2>4, <2>5, <2>6 DEF lost, ActiveStatuses
  <1>2. CASE ctl[c].seen \in {"clean", "unclean"}
    <2>1. PICK cleaned \in BOOLEAN, status \in {row.status, "cancelled"} :
             AppliedTo(row, c) = [row EXCEPT !.cleaned = cleaned, !.status = status]
      BY <1>2 DEF AppliedTo, RunRow
    <2> QED BY <2>1 DEF RunRow, TerminalStatuses, ActiveStatuses
  <1>3. CASE ctl[c].seen = "failed"
    <2>1. AppliedTo(row, c) = [row EXCEPT !.status = "failed"]
      BY <1>3 DEF AppliedTo
    <2> QED BY <2>1 DEF RunRow, TerminalStatuses, ActiveStatuses
  <1>4. CASE ctl[c].seen = "complete"
    <2>1. AppliedTo(row, c) = PhaseEnds(row) /\ row.status \in ActiveStatuses
      BY <1>0, <1>4 DEF AppliedTo
    <2>2. \/ PhaseEnds(row) = [row EXCEPT !.phase = "finalizer", !.shardJob = TRUE, !.dispatched = FALSE,
                                          !.jobName = "none", !.attempts = 0, !.status = "queued"]
          \/ PhaseEnds(row) = [row EXCEPT !.status = "failed"]
      BY DEF PhaseEnds
    <2>3. CASE PhaseEnds(row) = [row EXCEPT !.phase = "finalizer", !.shardJob = TRUE, !.dispatched = FALSE,
                                            !.jobName = "none", !.attempts = 0, !.status = "queued"]
      <3> DEFINE ended == [row EXCEPT !.phase = "finalizer", !.shardJob = TRUE, !.dispatched = FALSE]
      <3>a. ended \in RunRow
        BY DEF RunRow, Kinds
      <3>b. PhaseEnds(row) = [ended EXCEPT !.jobName = "none", !.attempts = 0, !.status = "queued"]
        BY <2>3 DEF RunRow
      <3>1. PhaseEnds(row) \in RunRow
        <4>1. "none" \in Kinds \cup {"none"} /\ 0 \in Nat /\ "queued" \in ActiveStatuses \cup TerminalStatuses
          BY DEF ActiveStatuses
        <4>2. [ended EXCEPT !.jobName = "none", !.attempts = 0, !.status = "queued"] \in RunRow
          <5> HIDE DEF ended
          <5> QED BY <3>a, <4>1, RowFields
        <4> QED BY <3>b, <4>2
      <3>2. PhaseEnds(row).attempts = 0
        BY <2>3 DEF RunRow
      <3> QED BY <2>1, <3>1, <3>2
    <2>4. CASE PhaseEnds(row) = [row EXCEPT !.status = "failed"]
      BY <2>1, <2>4 DEF RunRow, TerminalStatuses, ActiveStatuses
    <2> QED BY <2>2, <2>3, <2>4
  <1>5. CASE ctl[c].seen = "active"
    <2>1. AppliedTo(row, c) = [row EXCEPT !.status = "running"] /\ row.status \in ActiveStatuses
      BY <1>0, <1>5 DEF AppliedTo
    <2> QED BY <2>1 DEF RunRow, TerminalStatuses, ActiveStatuses
  <1>6. CASE ctl[c].seen \notin {"missing", "missing_error", "clean", "unclean", "failed",
                                 "complete", "active"}
    BY <1>6 DEF AppliedTo
  <1> QED BY <1>1, <1>2, <1>3, <1>4, <1>5, <1>6

\* Every step keeps the type of the row, its number of attempts in bounds, and
\* a run that has ended ended.
LEMMA RunType ==
    ASSUME TypeInv, MemoryInv, [Next]_vars
    PROVE  /\ run' \in RunRow /\ run'.attempts \in 0..MaximumDispatchAttempts + 1
           /\ run'.status \in ActiveStatuses =>
                  run.status \in ActiveStatuses /\ run'.attempts <= MaximumDispatchAttempts
  <1>0. /\ run \in RunRow /\ ctl \in [Controllers -> ControllerState] /\ halted \in BOOLEAN
        /\ run.attempts \in 0..MaximumDispatchAttempts + 1
        /\ run.status \in ActiveStatuses => run.attempts <= MaximumDispatchAttempts
        /\ MaximumDispatchAttempts \in Nat \ {0}
    BY FanOutAssumption DEF TypeInv, FanOutTypeOK
  <1> DEFINE Typed(row) ==
        /\ row \in RunRow /\ row.attempts \in 0..MaximumDispatchAttempts + 1
        /\ row.status \in ActiveStatuses =>
               run.status \in ActiveStatuses /\ row.attempts <= MaximumDispatchAttempts
  <1>1. ASSUME NEW c \in Controllers, Reserve(c)
        PROVE  Typed(run')
    <2>1. CASE run' = [run EXCEPT !.status = "failed"]
      BY <1>0, <2>1 DEF RunRow, ActiveStatuses, TerminalStatuses
    <2>2. ASSUME NEW granted \in 0..Parallelism,
                 run' = [run EXCEPT !.phase = NextKind, !.dispatched = TRUE, !.jobName = NextKind,
                                    !.units = granted, !.attempts = @ + 1]
          PROVE  Typed(run')
      <3>1. /\ NextKind \in Kinds /\ run.attempts \in Nat /\ run.attempts < MaximumDispatchAttempts
            /\ run.status \in ActiveStatuses
        BY <1>0, <1>1 DEF Reserve, NextKind, Kinds, ActiveStatuses
      <3>a. run.attempts + 1 \in Nat
        BY <3>1
      <3>b. run' \in RunRow
        BY <1>0, <2>2, <3>1, <3>a DEF RunRow
      <3>2. run'.attempts = run.attempts + 1 /\ run'.status = run.status
        BY <1>0, <2>2 DEF RunRow
      <3> QED BY <3>b, <1>0, <3>1, <3>2
    <2>3. \/ run' = [run EXCEPT !.status = "failed"]
          \/ \E granted \in 0..Parallelism :
               run' = [run EXCEPT !.phase = NextKind, !.dispatched = TRUE, !.jobName = NextKind,
                                  !.units = granted, !.attempts = @ + 1]
      <3>1. CASE Refused
        BY <1>1, <3>1 DEF Reserve
      <3>2. CASE ~Refused
        <4>1. PICK granted : /\ granted = AtMost(RequestedUnits, GlobalActive - others) /\ granted > 0
                             /\ run' = [run EXCEPT !.phase = NextKind, !.dispatched = TRUE,
                                          !.jobName = NextKind, !.units = granted, !.attempts = @ + 1]
          BY <1>1, <3>2 DEF Reserve
        <4>2. granted \in 0..Parallelism
          BY <4>1, Granted, FanOutAssumption
        <4> QED BY <4>1, <4>2
      <3> QED BY <3>1, <3>2
    <2> QED BY <2>1, <2>2, <2>3
  <1>2. ASSUME NEW c \in Controllers, RecordDispatchError(c)
        PROVE  Typed(run')
    BY <1>0, <1>2 DEF RecordDispatchError, RunRow, ActiveStatuses, TerminalStatuses
  <1>3. ASSUME NEW token \in Controllers \cup {NoController}, NEW live \in BOOLEAN
        PROVE  Typed([run EXCEPT !.token = token, !.leaseLive = live])
    BY <1>0 DEF RunRow
  <1>4. ASSUME NEW c \in Controllers, ReconcileApply(c)
        PROVE  Typed(run')
    <2> DEFINE released == [run EXCEPT !.token = NoController, !.leaseLive = FALSE]
    <2>1. Typed(released) /\ released.status = run.status /\ released.attempts = run.attempts
      BY <1>0, <1>3 DEF RunRow
    <2>2. \/ run' \in {run, released}
          \/ SnapshotHolds(c) /\ run' = AppliedTo(released, c)
      BY <1>4 DEF ReconcileApply
    <2> HIDE DEF released
    <2>3. CASE SnapshotHolds(c) /\ run' = AppliedTo(released, c)
      <3>1. released.status = ctl[c].status /\ ctl[c].phase = "applying" /\ Memory(c)
        BY <1>4, <2>1, <2>3 DEF SnapshotHolds, ReconcileApply, MemoryInv
      <3>2. /\ run' \in RunRow
            /\ \/ run'.attempts \in {0, run.attempts}
               \/ /\ run.status \in ActiveStatuses
                  /\ run'.attempts = run.attempts + 1
                  /\ run.attempts >= MaximumDispatchAttempts => run'.status = "failed"
            /\ run'.status \in ActiveStatuses => run.status \in ActiveStatuses
        BY <1>0, <2>1, <2>3, <3>1, AppliedRow
      <3> QED BY <1>0, <3>2 DEF ActiveStatuses
    <2> QED BY <1>0, <2>1, <2>2, <2>3
  <1>5. ASSUME NEW status \in ActiveStatuses \cup TerminalStatuses, run' = [run EXCEPT !.status = status],
               status \in ActiveStatuses => run.status \in ActiveStatuses
        PROVE  Typed(run')
    BY <1>0, <1>5 DEF RunRow
  <1>6. ASSUME NEW p \in pods, \/ LoadContext(p) \/ StopsWhenCancelled(p) \/ LateHeartbeat(p)
                               \/ Publish(p) \/ MarkFailed(p)
        PROVE  Typed(run')
    <2>1. \/ run' = run
          \/ \E status \in TerminalStatuses : run' = [run EXCEPT !.status = status]
          \/ run.status \in ActiveStatuses /\ run' = [run EXCEPT !.status = "running"]
      BY <1>6 DEF LoadContext, StopsWhenCancelled, LateHeartbeat, Publish, MarkFailed, TerminalStatuses
    <2> QED BY <1>0, <1>5, <2>1 DEF ActiveStatuses, TerminalStatuses
  <1>7. CASE LeaseExpires \/ \E c \in Controllers : ReconcileClaim(c)
    <2>1. /\ run.token \in Controllers \cup {NoController}
          /\ \/ run' = [run EXCEPT !.leaseLive = FALSE]
             \/ \E c \in Controllers : run' = [run EXCEPT !.token = c, !.leaseLive = TRUE]
      BY <1>0, <1>7 DEF LeaseExpires, ReconcileClaim, RunRow
    <2>2. CASE run' = [run EXCEPT !.leaseLive = FALSE]
      BY <1>0, <2>2 DEF RunRow
    <2> QED BY <1>3, <2>1, <2>2
  <1>8. CASE run' = run
    BY <1>0, <1>8
  <1> QED BY <1>1, <1>2, <1>4, <1>6, <1>7, <1>8, RunWriters DEF RunMoves

\* What happens to a Job: a control worker creates it, a Pod of its ends, it is
\* marked for deletion, or it is gone.
Fresh(units, incarnation) ==
    [NoJob EXCEPT !.state = "active", !.units = units, !.incarnation = incarnation]
Made(c, kind) ==
    /\ ctl[c].phase \in {"dispatching", "creating"} /\ ctl[c].kind = kind
    /\ kjob[kind].state = "absent"
    /\ ctl'[c].phase \in {"idle", "applying"} \/ "lost_create" \in accidents'
    /\ kjob'[kind] = Fresh(ctl[c].units, kjob[kind].incarnation + 1)
    /\ pods' = pods

JobEnds(p) ==
    /\ Owned(p) /\ pods' = pods \ {p}
    /\ \E done \in {kjob[p.kind].done, kjob[p.kind].done \cup {p.index}},
          state \in {"active", "complete", "failed"} :
             kjob'[p.kind] = [kjob[p.kind] EXCEPT !.done = done, !.state = state]

Gone(kind) == kjob'[kind] = [NoJob EXCEPT !.incarnation = kjob[kind].incarnation] /\ pods' = pods

JobMoves(kind) ==
    \/ kjob'[kind] = kjob[kind]
    \/ kjob'[kind] = [kjob[kind] EXCEPT !.deleting = TRUE] /\ pods' = pods
    \/ Gone(kind)
    \/ \E c \in Controllers : Made(c, kind)
    \/ \E p \in pods : p.kind = kind /\ JobEnds(p)

\* What happens to a Pod that stays.
Moves(q, p) ==
    \/ /\ q.phase = "starting" /\ p = [q EXCEPT !.phase = "executing"]
       /\ run.dispatched /\ run.status \in ActiveStatuses /\ ~halted
    \/ /\ q.phase = "executing" /\ q.kind = "shards" /\ p = [q EXCEPT !.phase = "recorded"]
    \/ /\ q.phase \in {"executing", "aggregated"} /\ p = [q EXCEPT !.phase = "failing"]
    \/ /\ q.phase = "executing" /\ q.kind = "finalizer" /\ ReceiptsComplete
       /\ p = [q EXCEPT !.phase = "aggregated", !.content = receipts]
    \/ /\ q.phase = "aggregated" /\ Publish(q) /\ p = [q EXCEPT !.phase = "recorded"]

PodMoves ==
    \/ pods' \subseteq pods
    \/ /\ kjob' = kjob
       /\ \/ \E kind \in Kinds, index \in Shards : StartPod(kind, index)
          \/ \E q \in pods : \E p : Moves(q, p) /\ pods' = (pods \ {q}) \cup {p}

\* The cluster after every step.
LEMMA ClusterMoves ==
    ASSUME TypeInv, [Next]_vars
    PROVE  PodMoves /\ \A kind \in Kinds : JobMoves(kind)
  <1>0. kjob \in [Kinds -> JobRow] /\ pods \subseteq PodState
    BY DEF TypeInv, FanOutTypeOK
  <1>same. ASSUME kjob' = kjob
           PROVE  \A kind \in Kinds : JobMoves(kind)
    BY <1>same DEF JobMoves
  <1>made. ASSUME NEW c \in Controllers, ctl[c].phase \in {"dispatching", "creating"}, pods' = pods,
                  kjob' = Created(ctl[c].kind, ctl[c].units),
                  kjob[ctl[c].kind].state = "absent"
                     => ctl'[c].phase \in {"idle", "applying"} \/ "lost_create" \in accidents'
           PROVE  PodMoves /\ \A kind \in Kinds : JobMoves(kind)
    <2>1. ASSUME NEW kind \in Kinds
          PROVE  JobMoves(kind)
      <3>1. CASE kjob[ctl[c].kind].state = "absent" /\ kind = ctl[c].kind
        BY <1>0, <1>made, <3>1 DEF Created, JobMoves, Made, Fresh
      <3>2. CASE ~(kjob[ctl[c].kind].state = "absent" /\ kind = ctl[c].kind)
        <4>1. kjob'[kind] = kjob[kind]
          BY <1>0, <1>made, <3>2 DEF Created
        <4> QED BY <4>1 DEF JobMoves
      <3> QED BY <3>1, <3>2
    <2> QED BY <1>made, <2>1 DEF PodMoves
  <1>exits. ASSUME NEW p \in pods, NEW succeeded \in BOOLEAN, PodExits(p, succeeded)
            PROVE  PodMoves /\ \A kind \in Kinds : JobMoves(kind)
    <2>0. p.kind \in Kinds /\ pods' = pods \ {p}
      BY <1>0, <1>exits DEF PodExits, PodState
    <2>1. ASSUME NEW kind \in Kinds
          PROVE  JobMoves(kind)
      <3>1. CASE ~Owned(p) \/ kind # p.kind
        <4>1. kjob'[kind] = kjob[kind]
          BY <1>0, <1>exits, <2>0, <3>1 DEF PodExits
        <4> QED BY <4>1 DEF JobMoves
      <3>2. CASE Owned(p) /\ kind = p.kind /\ ~succeeded
        <4>1. kjob'[kind] = [kjob[kind] EXCEPT !.state = "failed"]
          BY <1>0, <1>exits, <2>0, <3>2 DEF PodExits
        <4>2. kjob'[kind] = [kjob[kind] EXCEPT !.done = kjob[kind].done, !.state = "failed"]
          BY <1>0, <4>1 DEF JobRow
        <4> QED BY <2>0, <3>2, <4>2 DEF JobMoves, JobEnds
      <3>3. CASE Owned(p) /\ kind = p.kind /\ succeeded
        <4> DEFINE done  == kjob[kind].done \cup {p.index}
                   all   == IF p.kind = "shards" THEN PlanShards ELSE {0}
                   state == IF done = all THEN "complete" ELSE kjob[kind].state
        <4>1. kjob' = [kjob EXCEPT ![kind].done = done, ![kind].state = state]
          BY <1>exits, <3>3 DEF PodExits
        <4>2. state \in {"active", "complete", "failed"}
          BY <3>3 DEF Owned
        <4> HIDE DEF done, state
        <4>3. kjob'[kind] = [kjob[kind] EXCEPT !.done = done, !.state = state]
          BY <1>0, <4>1
        <4> QED BY <2>0, <3>3, <4>2, <4>3 DEF JobMoves, JobEnds, done
      <3> QED BY <3>1, <3>2, <3>3
    <2> QED BY <2>0, <2>1 DEF PodMoves
  <1>1. ASSUME NEW c \in Controllers, ControllerStep(c)
        PROVE  PodMoves /\ \A kind \in Kinds : JobMoves(kind)
    <2>1. CASE ObserveCleanup(c)
      <3>1. PICK name : /\ pods' = pods
                        /\ kjob' = kjob \/ kjob' = [kjob EXCEPT ![name].deleting = TRUE]
        BY <2>1 DEF ObserveCleanup
      <3>2. ASSUME NEW kind \in Kinds
            PROVE  kjob'[kind] = kjob[kind] \/ kjob'[kind] = [kjob[kind] EXCEPT !.deleting = TRUE]
        BY <1>0, <3>1
      <3> QED BY <3>1, <3>2 DEF PodMoves, JobMoves
    <2>2. CASE Dispatch(c) \/ DispatchFails(c) \/ RecreateJob(c) \/ RecreateJobFails(c)
      <3>0. ctl \in [Controllers -> ControllerState] /\ Idle.phase = "idle"
        BY DEF TypeInv, FanOutTypeOK, Idle
      <3>1. /\ pods' = pods /\ ctl[c].phase \in {"dispatching", "creating"}
            /\ \/ kjob' = kjob
               \/ /\ kjob' = Created(ctl[c].kind, ctl[c].units)
                  /\ kjob[ctl[c].kind].state = "absent"
                       => ctl'[c].phase \in {"idle", "applying"} \/ "lost_create" \in accidents'
        <4>1. CASE Dispatch(c)
          BY <3>0, <4>1 DEF Dispatch, Conflicting
        <4>2. CASE DispatchFails(c) \/ RecreateJobFails(c)
          BY <4>2 DEF DispatchFails, RecreateJobFails, Accident
        <4>3. CASE RecreateJob(c)
          BY <3>0, <4>3 DEF RecreateJob, Seen
        <4> QED BY <2>2, <4>1, <4>2, <4>3
      <3> QED BY <1>made, <1>same, <3>1 DEF PodMoves
    <2>3. CASE \/ Reserve(c) \/ RecordDispatchError(c) \/ ReconcileClaim(c) \/ ObserveJob(c) \/ ObserveFails(c)
               \/ ReconcileApply(c) \/ ControllerCrash(c) \/ TakeOver(c) \/ TickEnds(c)
      <3>1. UNCHANGED <<kjob, pods>>
        BY <2>3 DEF Reserve, RecordDispatchError, ReconcileClaim, ObserveJob, ObserveFails, ReconcileApply,
           ControllerCrash, TakeOver, TickEnds, cluster
      <3> QED BY <1>same, <3>1 DEF PodMoves
    <2> QED BY <1>1, <2>1, <2>2, <2>3 DEF ControllerStep
  <1>2. ASSUME NEW q \in pods, PodStep(q)
        PROVE  PodMoves /\ \A kind \in Kinds : JobMoves(kind)
    <2>0. q \in PodState
      BY <1>0
    <2>1. CASE \E succeeded \in BOOLEAN : PodExits(q, succeeded)
      BY <1>exits, <2>1
    <2>2. ASSUME NEW p, Moves(q, p), pods' = (pods \ {q}) \cup {p}, kjob' = kjob
          PROVE  PodMoves /\ \A kind \in Kinds : JobMoves(kind)
      BY <1>same, <2>2 DEF PodMoves
    <2>3. CASE LoadContext(q)
      BY <2>1, <2>2, <2>3 DEF LoadContext, Becomes, Moves
    <2>4. CASE RecordReceipt(q)
      BY <2>2, <2>4 DEF RecordReceipt, Becomes, Moves
    <2>5. CASE Aggregate(q)
      BY <2>2, <2>5 DEF Aggregate, Becomes, Moves
    <2>6. CASE Publish(q)
      BY <2>2, <2>6 DEF Publish, Becomes, Moves
    <2>7. CASE HandlerRaises(q)
      BY <2>2, <2>7 DEF HandlerRaises, Becomes, Moves
    <2>8. CASE StopsWhenCancelled(q) \/ PodSucceeds(q) \/ MarkFailed(q) \/ PodKilled(q)
      BY <2>1, <2>8 DEF StopsWhenCancelled, PodSucceeds, MarkFailed, PodKilled
    <2>9. CASE LateHeartbeat(q) \/ PodTerminated(q)
      <3>1. kjob' = kjob /\ pods' \subseteq pods
        BY <2>9 DEF LateHeartbeat, PodTerminated, cluster
      <3> QED BY <1>same, <3>1 DEF PodMoves
    <2> QED BY <1>2, <2>3, <2>4, <2>5, <2>6, <2>7, <2>8, <2>9 DEF PodStep
  <1>3. ASSUME NEW name \in Kinds, ClusterStep(name)
        PROVE  PodMoves /\ \A kind \in Kinds : JobMoves(kind)
    <2>1. ASSUME NEW index \in Shards, StartPod(name, index)
          PROVE  PodMoves /\ \A kind \in Kinds : JobMoves(kind)
      <3>1. kjob' = kjob
        BY <2>1 DEF StartPod
      <3> QED BY <1>same, <2>1, <3>1 DEF PodMoves
    <2>2. CASE JobRemoved(name) \/ JobVanishes(name)
      <3>1. /\ pods' = pods
            /\ kjob' = [kjob EXCEPT ![name] = [NoJob EXCEPT !.incarnation = kjob[name].incarnation]]
        BY <2>2 DEF JobRemoved, JobVanishes
      <3>2. ASSUME NEW kind \in Kinds
            PROVE  kjob'[kind] = kjob[kind] \/ Gone(kind)
        BY <1>0, <3>1 DEF Gone
      <3> QED BY <3>1, <3>2 DEF PodMoves, JobMoves
    <2> QED BY <1>3, <2>1, <2>2 DEF ClusterStep
  <1>4. CASE ReserveOther \/ ReleaseOther \/ CancelMission \/ LeaseExpires \/ UNCHANGED vars
    <2>1. UNCHANGED <<kjob, pods>>
      BY <1>4 DEF ReserveOther, ReleaseOther, CancelMission, LeaseExpires, vars, cluster
    <2> QED BY <1>same, <2>1 DEF PodMoves
  <1> QED BY <1>1, <1>2, <1>3, <1>4 DEF Next

\* There are two names.
LEMMA KnownNames == ASSUME TypeInv PROVE CleanupJobNames \subseteq Kinds
  BY DEF TypeInv, FanOutTypeOK, RunRow, CleanupJobNames, CurrentJobName, Kinds

\* What a control worker remembers after a step.
Remembers(c) ==
    \/ ctl'[c] = ctl[c]
    \/ ctl'[c] = Idle
    \/ /\ Reserve(c) /\ ~Refused
       /\ run'.phase = NextKind /\ run'.dispatched /\ run'.jobName = NextKind
       /\ run'.units = AtMost(RequestedUnits, GlobalActive - others)
       /\ ctl'[c] = [Idle EXCEPT !.phase = "dispatching", !.kind = NextKind, !.units = run'.units]
    \/ /\ ctl[c].phase = "dispatching" /\ ctl'[c] = [ctl[c] EXCEPT !.phase = "recording"]
       /\ Conflicting(ctl[c].kind, ctl[c].units) \/ {"request_error", "lost_create"} \cap accidents' # {}
    \/ /\ ReconcileClaim(c)
       /\ ctl'[c] = [Idle EXCEPT !.phase = "observing", !.kind = run.jobName,
                                 !.units = run.units, !.status = run.status,
                                 !.halted = halted, !.attempts = run.attempts,
                                 !.cleanup = run.status \notin ActiveStatuses \/ halted,
                                 !.names = IF run.status \notin ActiveStatuses \/ halted
                                           THEN CleanupJobNames ELSE {}]
    \/ /\ ObserveCleanup(c)
       /\ \E kind \in ctl[c].names, seen \in {"clean", "unclean"}, phase \in {"observing", "applying"} :
             /\ seen = "clean" => /\ kjob[kind].state = "absent" /\ PodsOf(kind) = {}
                                  /\ ctl[c].seen # "unclean"
             /\ phase = "applying" => ctl[c].names = {kind}
             /\ ctl'[c] = [ctl[c] EXCEPT !.names = ctl[c].names \ {kind}, !.seen = seen, !.phase = phase]
    \/ /\ ctl[c].phase = "observing" /\ ~ctl[c].cleanup
       /\ ctl'[c] = [ctl[c] EXCEPT !.phase = "creating"]
    \/ /\ ctl[c].phase \in {"observing", "creating"}
       /\ \E seen \in Observations \ {"clean", "unclean"} :
             /\ seen = "error" \/ ctl[c].phase = "creating" \/ ~ctl[c].cleanup
             /\ ctl'[c] = [ctl[c] EXCEPT !.phase = "applying", !.seen = seen]

\* Every step, and every control worker.
LEMMA AllRemember ==
    ASSUME TypeInv, NameInv, [Next]_vars, NEW c \in Controllers
    PROVE  Remembers(c)
  <1>0. ctl \in [Controllers -> ControllerState] /\ run \in RunRow /\ kjob \in [Kinds -> JobRow]
    BY DEF TypeInv, FanOutTypeOK
  <1>seen. ASSUME NEW d \in Controllers, NEW seen \in Observations \ {"clean", "unclean"}, Seen(d, seen),
                  ctl[d].phase \in {"observing", "creating"},
                  seen = "error" \/ ctl[d].phase = "creating" \/ ~ctl[d].cleanup
           PROVE  Remembers(c)
    BY <1>0, <1>seen DEF Seen, Remembers
  <1>1. ASSUME NEW d \in Controllers, Reserve(d)
        PROVE  Remembers(c)
    <2>1. CASE Refused \/ c # d
      BY <1>0, <1>1, <2>1 DEF Reserve, Remembers
    <2>2. CASE ~Refused /\ c = d
      <3> DEFINE granted == AtMost(RequestedUnits, GlobalActive - others)
      <3>1. /\ run' = [run EXCEPT !.phase = NextKind, !.dispatched = TRUE, !.jobName = NextKind,
                                  !.units = granted, !.attempts = @ + 1]
            /\ ctl' = [ctl EXCEPT ![c] = [Idle EXCEPT !.phase = "dispatching", !.kind = NextKind,
                                                      !.units = granted]]
        BY <1>1, <2>2 DEF Reserve
      <3> HIDE DEF granted
      <3>2. /\ run'.phase = NextKind /\ run'.dispatched /\ run'.jobName = NextKind
            /\ run'.units = granted
        BY <1>0, <3>1 DEF RunRow
      <3>3. ctl'[c] = [Idle EXCEPT !.phase = "dispatching", !.kind = NextKind, !.units = granted]
        BY <1>0, <3>1
      <3> QED BY <1>1, <2>2, <3>2, <3>3 DEF Remembers, granted
    <2> QED BY <2>1, <2>2
  <1>2. ASSUME NEW d \in Controllers, Dispatch(d) \/ DispatchFails(d)
        PROVE  Remembers(c)
    <2>1. /\ ctl[d].phase = "dispatching"
          /\ \/ ctl' = [ctl EXCEPT ![d] = Idle]
             \/ /\ ctl' = [ctl EXCEPT ![d].phase = "recording"]
                /\ \/ Conflicting(ctl[d].kind, ctl[d].units)
                   \/ {"request_error", "lost_create"} \cap accidents' # {}
      BY <1>2 DEF Dispatch, DispatchFails, Accident
    <2> QED BY <1>0, <2>1 DEF Remembers
  <1>3. ASSUME NEW d \in Controllers, ReconcileClaim(d)
        PROVE  Remembers(c)
    BY <1>0, <1>3 DEF ReconcileClaim, Remembers
  <1>4. ASSUME NEW d \in Controllers, ObserveCleanup(d)
        PROVE  Remembers(c)
    <2>1. CASE c # d
      BY <1>0, <1>4, <2>1 DEF ObserveCleanup, Remembers
    <2>2. CASE c = d
      <3>0. ObserveCleanup(c) /\ ctl[c].phase = "observing"
        BY <1>4, <2>2 DEF ObserveCleanup
      <3>1. PICK kind \in ctl[c].names :
              ctl' = [ctl EXCEPT ![c].names = ctl[c].names \ {kind},
                        ![c].seen = IF kjob[kind].state = "absent" /\ PodsOf(kind) = {}
                                       /\ ctl[c].seen # "unclean" THEN "clean" ELSE "unclean",
                        ![c].phase = IF ctl[c].names \ {kind} = {} THEN "applying" ELSE @]
        BY <3>0 DEF ObserveCleanup
      <3> DEFINE seen  == IF kjob[kind].state = "absent" /\ PodsOf(kind) = {}
                             /\ ctl[c].seen # "unclean" THEN "clean" ELSE "unclean"
                 phase == IF ctl[c].names \ {kind} = {} THEN "applying" ELSE ctl[c].phase
      <3>2. /\ seen \in {"clean", "unclean"} /\ phase \in {"observing", "applying"}
            /\ seen = "clean" => /\ kjob[kind].state = "absent" /\ PodsOf(kind) = {}
                                 /\ ctl[c].seen # "unclean"
            /\ phase = "applying" => ctl[c].names = {kind}
        BY <3>0, <3>1
      <3>3. ctl'[c] = [ctl[c] EXCEPT !.names = ctl[c].names \ {kind}, !.seen = seen, !.phase = phase]
        BY <1>0, <3>1
      <3> HIDE DEF seen, phase
      <3>4. \E k \in ctl[c].names, s \in {"clean", "unclean"}, f \in {"observing", "applying"} :
               /\ s = "clean" => /\ kjob[k].state = "absent" /\ PodsOf(k) = {} /\ ctl[c].seen # "unclean"
               /\ f = "applying" => ctl[c].names = {k}
               /\ ctl'[c] = [ctl[c] EXCEPT !.names = ctl[c].names \ {k}, !.seen = s, !.phase = f]
        BY <3>2, <3>3
      <3> QED BY <3>0, <3>4 DEF Remembers
    <2> QED BY <2>1, <2>2
  <1>5. ASSUME NEW d \in Controllers, ObserveJob(d)
        PROVE  Remembers(c)
    <2>0. ctl[d].phase = "observing" /\ ctl[d].kind \in Kinds
      BY <1>0, <1>5, KnownNames DEF ObserveJob, NameInv
    <2>1. /\ ctl[d].phase = "observing" /\ ~ctl[d].cleanup
          /\ \/ \E seen : Seen(d, seen) /\ seen \in (JobStates \ {"absent"}) \cup {"other", "missing_error"}
             \/ ctl' = [ctl EXCEPT ![d].phase = "creating"]
      BY <1>0, <1>5, <2>0 DEF ObserveJob, JobRow, JobStates
    <2>2. CASE \E seen : Seen(d, seen) /\ seen \in (JobStates \ {"absent"}) \cup {"other", "missing_error"}
      BY <1>seen, <2>1, <2>2 DEF Observations, JobStates
    <2>3. CASE ctl' = [ctl EXCEPT ![d].phase = "creating"]
      BY <1>0, <2>1, <2>3 DEF Remembers
    <2> QED BY <2>1, <2>2, <2>3
  <1>6. ASSUME NEW d \in Controllers, ObserveFails(d) \/ RecreateJob(d) \/ RecreateJobFails(d)
        PROVE  Remembers(c)
    <2>1. /\ ctl[d].phase \in {"observing", "creating"}
          /\ \E seen \in {"error", "missing", "missing_error"} :
                Seen(d, seen) /\ (seen = "error" \/ ctl[d].phase = "creating")
      BY <1>6 DEF ObserveFails, RecreateJob, RecreateJobFails
    <2> QED BY <1>seen, <2>1 DEF Observations
  <1>7. ASSUME NEW d \in Controllers, RecordDispatchError(d) \/ ReconcileApply(d) \/ ControllerCrash(d)
        PROVE  Remembers(c)
    BY <1>0, <1>7 DEF RecordDispatchError, ReconcileApply, ControllerCrash, Remembers
  <1>8. ASSUME NEW d \in Controllers, TakeOver(d) \/ TickEnds(d)
        PROVE  Remembers(c)
    BY <1>8 DEF TakeOver, TickEnds, Remembers
  <1>9. ASSUME NEW p \in pods, PodStep(p)
        PROVE  Remembers(c)
    BY <1>9 DEF PodStep, LoadContext, StopsWhenCancelled, LateHeartbeat, RecordReceipt, Aggregate, Publish,
       PodSucceeds, HandlerRaises, MarkFailed, PodKilled, PodTerminated, PodUnchanged, ClusterUnchanged,
       control, Remembers
  <1>10. ASSUME NEW kind \in Kinds, ClusterStep(kind)
         PROVE  Remembers(c)
    BY <1>10 DEF ClusterStep, StartPod, JobRemoved, JobVanishes, ClusterUnchanged, control, Remembers
  <1>11. CASE ReserveOther \/ ReleaseOther \/ CancelMission \/ LeaseExpires \/ UNCHANGED vars
    BY <1>11 DEF ReserveOther, ReleaseOther, CancelMission, LeaseExpires, vars, control, Remembers
  <1> QED BY <1>1, <1>2, <1>3, <1>4, <1>5, <1>6, <1>7, <1>8, <1>9, <1>10, <1>11 DEF Next, ControllerStep

\* Idle control workers remember nothing.
LEMMA IdleMemory ==
    /\ Idle \in ControllerState /\ Idle.phase = "idle" /\ Idle.kind = "none" /\ Idle.names = {}
    /\ Idle.seen = "none" /\ ~Idle.cleanup
  <1>1. 0 \in 0..Parallelism
    BY FanOutAssumption
  <1> QED BY <1>1 DEF Idle, ControllerState, ControllerPhases, ActiveStatuses, Observations

\* The memory of a control worker that begins to reconcile.
LEMMA ClaimMemory ==
    ASSUME TypeInv, NEW c \in Controllers, ReconcileClaim(c),
           ctl'[c] = [Idle EXCEPT !.phase = "observing", !.kind = run.jobName,
                                 !.units = run.units, !.status = run.status,
                                 !.halted = halted, !.attempts = run.attempts,
                                 !.cleanup = run.status \notin ActiveStatuses \/ halted,
                                 !.names = IF run.status \notin ActiveStatuses \/ halted
                                           THEN CleanupJobNames ELSE {}]
    PROVE  /\ ctl'[c] \in ControllerState
           /\ ctl'[c].phase = "observing" /\ ctl'[c].kind = run.jobName /\ ctl'[c].units = run.units
           /\ ctl'[c].status = run.status /\ ctl'[c].halted = halted /\ ctl'[c].seen = "none"
           /\ ctl'[c].attempts = run.attempts
           /\ ctl'[c].cleanup = (run.status \notin ActiveStatuses \/ halted)
           /\ ctl'[c].names = IF run.status \notin ActiveStatuses \/ halted THEN CleanupJobNames ELSE {}
  <1>0. run \in RunRow /\ halted \in BOOLEAN
    BY DEF TypeInv, FanOutTypeOK
  <1> DEFINE cleanup == run.status \notin ActiveStatuses \/ halted
             names   == IF run.status \notin ActiveStatuses \/ halted THEN CleanupJobNames ELSE {}
             a == [Idle EXCEPT !.phase = "observing", !.kind = run.jobName, !.units = run.units]
             b == [a EXCEPT !.status = run.status, !.halted = halted, !.attempts = run.attempts]
  <1>1. ctl'[c] = [b EXCEPT !.cleanup = cleanup, !.names = names]
    BY DEF Idle
  <1>2. run.jobName \in Kinds /\ cleanup \in BOOLEAN /\ names \in SUBSET Kinds
    BY <1>0 DEF ReconcileClaim, RunRow, CleanupJobNames, CurrentJobName, Kinds
  <1>3. /\ a \in ControllerState /\ a.phase = "observing" /\ a.kind = run.jobName /\ a.units = run.units
        /\ a.seen = "none"
    BY <1>0, <1>2, IdleMemory DEF ControllerState, ControllerPhases, RunRow
  <1> HIDE DEF a
  <1>4. /\ b \in ControllerState /\ b.phase = a.phase /\ b.kind = a.kind /\ b.units = a.units
        /\ b.seen = a.seen
        /\ b.status = run.status /\ b.halted = halted /\ b.attempts = run.attempts
    BY <1>0, <1>3 DEF ControllerState, RunRow
  <1> HIDE DEF b, cleanup, names
  <1>5. /\ ctl'[c] \in ControllerState /\ ctl'[c].phase = b.phase /\ ctl'[c].kind = b.kind
        /\ ctl'[c].units = b.units /\ ctl'[c].seen = b.seen /\ ctl'[c].status = b.status
        /\ ctl'[c].halted = b.halted /\ ctl'[c].attempts = b.attempts
        /\ ctl'[c].cleanup = cleanup /\ ctl'[c].names = names
    BY <1>1, <1>2, <1>4 DEF ControllerState
  <1> QED BY <1>3, <1>4, <1>5 DEF cleanup, names

\* There is a memory for every control worker.
LEMMA MemoryFunction ==
    ASSUME TypeInv, [Next]_vars
    PROVE  ctl' = [c \in Controllers |-> ctl'[c]]
  <1>0. ctl \in [Controllers -> ControllerState]
    BY DEF TypeInv, FanOutTypeOK
  <1>same. ASSUME ctl' = ctl
           PROVE  ctl' = [c \in Controllers |-> ctl'[c]]
    BY <1>0, <1>same
  <1>one. ASSUME NEW d \in Controllers, NEW memory, ctl' = [ctl EXCEPT ![d] = memory]
          PROVE  ctl' = [c \in Controllers |-> ctl'[c]]
    BY <1>0, <1>one
  <1>1. ASSUME NEW d \in Controllers, ControllerStep(d)
        PROVE  ctl' = ctl \/ \E memory : ctl' = [ctl EXCEPT ![d] = memory]
    <2>1. ASSUME NEW seen, Seen(d, seen)
          PROVE  \E memory : ctl' = [ctl EXCEPT ![d] = memory]
      BY <2>1 DEF Seen
    <2>2. CASE ObserveJob(d) \/ ObserveFails(d) \/ RecreateJob(d) \/ RecreateJobFails(d)
      BY <2>1, <2>2 DEF ObserveJob, ObserveFails, RecreateJob, RecreateJobFails
    <2>3. CASE ObserveCleanup(d)
      BY <2>3 DEF ObserveCleanup
    <2>4. CASE Reserve(d) \/ Dispatch(d) \/ DispatchFails(d) \/ RecordDispatchError(d)
      BY <2>4 DEF Reserve, Dispatch, DispatchFails, RecordDispatchError
    <2>5. CASE ReconcileClaim(d) \/ ReconcileApply(d) \/ ControllerCrash(d) \/ TakeOver(d) \/ TickEnds(d)
      BY <2>5 DEF ReconcileClaim, ReconcileApply, ControllerCrash, TakeOver, TickEnds
    <2> QED BY <1>1, <2>2, <2>3, <2>4, <2>5 DEF ControllerStep
  <1>2. ASSUME NEW p \in pods, PodStep(p)
        PROVE  ctl' = ctl
    BY <1>2 DEF PodStep, LoadContext, StopsWhenCancelled, LateHeartbeat, RecordReceipt, Aggregate, Publish,
       PodSucceeds, HandlerRaises, MarkFailed, PodKilled, PodTerminated, PodUnchanged, ClusterUnchanged,
       control
  <1>3. ASSUME NEW kind \in Kinds, ClusterStep(kind)
        PROVE  ctl' = ctl
    BY <1>3 DEF ClusterStep, StartPod, JobRemoved, JobVanishes, ClusterUnchanged, control
  <1>4. CASE ReserveOther \/ ReleaseOther \/ CancelMission \/ LeaseExpires \/ UNCHANGED vars
    BY <1>4, <1>same DEF ReserveOther, ReleaseOther, CancelMission, LeaseExpires, vars, control
  <1> QED BY <1>same, <1>one, <1>1, <1>2, <1>3, <1>4 DEF Next

\* The memories keep their types, and what they say of an active run.
LEMMA MemoryNext ==
    ASSUME TypeInv, NameInv, MemoryInv, [Next]_vars
    PROVE  ctl' \in [Controllers -> ControllerState] /\ MemoryInv'
  <1>0. /\ ctl \in [Controllers -> ControllerState] /\ run \in RunRow /\ halted \in BOOLEAN
        /\ Parallelism \in Nat \ {0}
    BY FanOutAssumption DEF TypeInv, FanOutTypeOK
  <1>1. ASSUME NEW c \in Controllers
        PROVE  ctl'[c] \in ControllerState /\ Memory(c)'
    <2>0. ctl[c] \in ControllerState /\ Memory(c)
      BY <1>0 DEF MemoryInv
    <2>1. CASE ctl'[c] = ctl[c]
      BY <2>0, <2>1 DEF Memory, Reconciling
    <2>2. CASE ctl'[c] = Idle
      BY <2>2, IdleMemory DEF Memory, Reconciling
    <2>3. CASE /\ Reserve(c) /\ ~Refused /\ run'.units = AtMost(RequestedUnits, GlobalActive - others)
               /\ ctl'[c] = [Idle EXCEPT !.phase = "dispatching", !.kind = NextKind, !.units = run'.units]
      <3>1. run'.units \in 0..Parallelism /\ NextKind \in Kinds
        BY <1>0, <2>3, Granted DEF Reserve, NextKind, Kinds
      <3>a. PICK kind \in Kinds, units \in 0..Parallelism : kind = NextKind /\ units = run'.units
        BY <3>1
      <3>b. ctl'[c] = [Idle EXCEPT !.phase = "dispatching", !.kind = kind, !.units = units]
        BY <2>3, <3>a
      <3>2. ctl'[c] \in ControllerState /\ ctl'[c].phase = "dispatching"
        BY <3>b, IdleMemory DEF ControllerState, ControllerPhases
      <3> QED BY <3>2 DEF Memory, Reconciling
    <2>4. CASE ctl[c].phase = "dispatching" /\ ctl'[c] = [ctl[c] EXCEPT !.phase = "recording"]
      <3>1. ctl'[c] \in ControllerState /\ ctl'[c].phase = "recording"
        BY <2>0, <2>4 DEF ControllerState, ControllerPhases
      <3> QED BY <3>1 DEF Memory, Reconciling
    <2>5. CASE ReconcileClaim(c) /\ ctl'[c] = [Idle EXCEPT !.phase = "observing", !.kind = run.jobName,
                                 !.units = run.units, !.status = run.status,
                                 !.halted = halted, !.attempts = run.attempts,
                                 !.cleanup = run.status \notin ActiveStatuses \/ halted,
                                 !.names = IF run.status \notin ActiveStatuses \/ halted
                                           THEN CleanupJobNames ELSE {}]
      <3>1. /\ ctl'[c] \in ControllerState
            /\ ctl'[c].phase = "observing" /\ ctl'[c].status = run.status /\ ctl'[c].halted = halted
            /\ ctl'[c].seen = "none"
            /\ ctl'[c].cleanup = (run.status \notin ActiveStatuses \/ halted)
        BY <2>5, ClaimMemory
      <3> QED BY <3>1 DEF Memory
    <2>6. ASSUME ObserveCleanup(c),
                 NEW kind \in ctl[c].names, NEW seen \in {"clean", "unclean"},
                 NEW phase \in {"observing", "applying"},
                 ctl'[c] = [ctl[c] EXCEPT !.names = ctl[c].names \ {kind}, !.seen = seen, !.phase = phase]
          PROVE  ctl'[c] \in ControllerState /\ Memory(c)'
      <3>0. /\ phase \in ControllerPhases /\ seen \in Observations
            /\ ctl[c].names \ {kind} \in SUBSET Kinds
        BY <2>0, <2>6 DEF ControllerState, ControllerPhases, Observations
      <3>1. ctl'[c] \in ControllerState
        BY <2>0, <2>6, <3>0 DEF ControllerState
      <3>2. /\ ctl'[c].phase = phase /\ ctl'[c].seen = seen
            /\ ctl'[c].cleanup = ctl[c].cleanup
        BY <2>0, <2>6 DEF ControllerState
      <3> QED BY <2>6, <3>1, <3>2 DEF Memory, ObserveCleanup
    <2>7. CASE /\ ctl[c].phase = "observing" /\ ~ctl[c].cleanup
               /\ ctl'[c] = [ctl[c] EXCEPT !.phase = "creating"]
      <3>1. /\ ctl'[c] \in ControllerState /\ ctl'[c].phase = "creating" /\ ctl'[c].seen = ctl[c].seen
            /\ ctl'[c].cleanup = ctl[c].cleanup /\ ctl'[c].status = ctl[c].status
            /\ ctl'[c].halted = ctl[c].halted
        BY <2>0, <2>7 DEF ControllerState, ControllerPhases
      <3> QED BY <2>0, <2>7, <3>1 DEF Memory, Reconciling
    <2>8. ASSUME ctl[c].phase \in {"observing", "creating"},
                 NEW seen \in Observations \ {"clean", "unclean"},
                 seen = "error" \/ ctl[c].phase = "creating" \/ ~ctl[c].cleanup,
                 ctl'[c] = [ctl[c] EXCEPT !.phase = "applying", !.seen = seen]
          PROVE  ctl'[c] \in ControllerState /\ Memory(c)'
      <3>1. /\ ctl'[c] \in ControllerState /\ ctl'[c].phase = "applying" /\ ctl'[c].seen = seen
            /\ ctl'[c].cleanup = ctl[c].cleanup /\ ctl'[c].status = ctl[c].status
            /\ ctl'[c].halted = ctl[c].halted
        BY <2>0, <2>8 DEF ControllerState, ControllerPhases
      <3> QED BY <2>0, <2>8, <3>1 DEF Memory, Reconciling
    <2>9. Remembers(c)
      BY AllRemember
    <2> QED BY <2>1, <2>2, <2>3, <2>4, <2>5, <2>6, <2>7, <2>8, <2>9 DEF Remembers
  <1>2. ctl' \in [Controllers -> ControllerState]
    BY <1>0, <1>1, MemoryFunction
  <1> QED BY <1>1, <1>2 DEF MemoryInv

\* How a step changes the phase of the run, and with it the names of its Jobs.
NameStep ==
    \/ /\ run'.phase = run.phase /\ run'.jobName = run.jobName /\ run'.shardJob = run.shardJob
       /\ run'.units = run.units
       /\ run'.dispatched = run.dispatched \/ \E c \in Controllers : RecordDispatchError(c)
       /\ run'.dispatched => run.dispatched
    \/ /\ run'.phase = NextKind /\ run'.jobName = NextKind /\ run'.shardJob = run.shardJob
       /\ run.status = "queued" /\ ~halted /\ ~Refused
       /\ \E c \in Controllers : Reserve(c)
       /\ run'.dispatched /\ run'.units = AtMost(RequestedUnits, GlobalActive - others)
    \/ /\ ~run'.dispatched /\ \E c \in Controllers : ctl[c].phase = "applying"
       /\ run.phase = "shards" /\ run'.phase = "finalizer" /\ run'.jobName = "none" /\ run'.shardJob
       /\ run.status = "running" /\ ~halted /\ ReceiptsComplete

\* Every step changes it so.
LEMMA AllNames ==
    ASSUME TypeInv, MemoryInv, [Next]_vars
    PROVE  NameStep
  <1>0. run \in RunRow
    BY DEF TypeInv, FanOutTypeOK
  <1>same. ASSUME run'.phase = run.phase, run'.jobName = run.jobName, run'.shardJob = run.shardJob,
                  run'.units = run.units, run'.dispatched = run.dispatched
           PROVE  NameStep
    BY <1>same DEF NameStep
  <1>1. ASSUME NEW c \in Controllers, Reserve(c)
        PROVE  NameStep
    <2>1. CASE Refused
      BY <1>0, <1>1, <1>same, <2>1 DEF Reserve, RunRow
    <2>2. CASE ~Refused
      <3>1. PICK granted : /\ granted = AtMost(RequestedUnits, GlobalActive - others)
                           /\ run' = [run EXCEPT !.phase = NextKind, !.dispatched = TRUE,
                                        !.jobName = NextKind, !.units = granted, !.attempts = @ + 1]
        BY <1>1, <2>2 DEF Reserve
      <3>2. /\ run'.phase = NextKind /\ run'.jobName = NextKind /\ run'.shardJob = run.shardJob
            /\ run'.dispatched /\ run'.units = granted
        BY <1>0, <3>1 DEF RunRow
      <3> QED BY <1>1, <2>2, <3>1, <3>2 DEF Reserve, NameStep
    <2> QED BY <2>1, <2>2
  <1>2. ASSUME NEW c \in Controllers, RecordDispatchError(c) \/ ReconcileClaim(c)
        PROVE  NameStep
    <2>1. CASE RecordDispatchError(c)
      <3>1. /\ run'.phase = run.phase /\ run'.jobName = run.jobName /\ run'.shardJob = run.shardJob
            /\ run'.units = run.units /\ (run'.dispatched => run.dispatched)
        BY <1>0, <2>1 DEF RecordDispatchError, RunRow
      <3> QED BY <2>1, <3>1 DEF NameStep
    <2>2. CASE ReconcileClaim(c)
      BY <1>0, <1>same, <2>2 DEF ReconcileClaim, RunRow
    <2> QED BY <1>2, <2>1, <2>2
  <1>3. ASSUME NEW c \in Controllers, ReconcileApply(c)
        PROVE  NameStep
    <2> DEFINE released == [run EXCEPT !.token = NoController, !.leaseLive = FALSE]
    <2>1. /\ released \in RunRow /\ released.status = run.status /\ released.phase = run.phase
          /\ released.jobName = run.jobName /\ released.shardJob = run.shardJob
          /\ released.units = run.units /\ released.dispatched = run.dispatched
      BY <1>0 DEF RunRow
    <2>2. \/ run' \in {run, released}
          \/ SnapshotHolds(c) /\ run' = AppliedTo(released, c)
      BY <1>3 DEF ReconcileApply
    <2> HIDE DEF released
    <2>3. CASE SnapshotHolds(c) /\ run' = AppliedTo(released, c)
      <3>1. CASE /\ ctl[c].seen = "complete"
                 /\ released.phase = "shards" /\ released.status = "running" /\ ReceiptsComplete
        <4>1. run' = [released EXCEPT !.phase = "finalizer", !.shardJob = TRUE, !.dispatched = FALSE,
                                      !.jobName = "none", !.attempts = 0, !.status = "queued"]
          BY <2>3, <3>1 DEF AppliedTo, PhaseEnds
        <4>2. run'.phase = "finalizer" /\ run'.jobName = "none" /\ run'.shardJob /\ ~run'.dispatched
          BY <2>1, <4>1 DEF RunRow
        <4>3. ~halted
          BY <1>3, <2>3, <3>1 DEF MemoryInv, Memory, Reconciling, ReconcileApply, SnapshotHolds
        <4> QED BY <1>3, <2>1, <3>1, <4>2, <4>3 DEF NameStep, ReconcileApply
      <3>2. CASE /\ ctl[c].seen = "complete"
                 /\ ~(released.phase = "shards" /\ released.status = "running" /\ ReceiptsComplete)
        <4>1. run' = [released EXCEPT !.status = "failed"]
          BY <2>3, <3>2 DEF AppliedTo, PhaseEnds
        <4> QED BY <1>same, <2>1, <4>1 DEF RunRow
      <3>3. CASE ctl[c].seen # "complete"
        <4>1. /\ run'.phase = released.phase /\ run'.jobName = released.jobName
              /\ run'.shardJob = released.shardJob
              /\ run'.units = released.units /\ run'.dispatched = released.dispatched
          <5>1. CASE ctl[c].seen \in {"missing", "missing_error"}
            BY <2>1, <2>3, <5>1 DEF AppliedTo, RunRow
          <5>2. CASE ctl[c].seen \in {"clean", "unclean"}
            BY <2>1, <2>3, <5>2 DEF AppliedTo, RunRow
          <5>3. CASE ctl[c].seen \in {"failed", "active"}
            BY <2>1, <2>3, <5>3 DEF AppliedTo, RunRow
          <5>4. CASE ctl[c].seen \notin {"missing", "missing_error", "clean", "unclean", "failed",
                                         "complete", "active"}
            BY <2>3, <5>4 DEF AppliedTo
          <5> QED BY <3>3, <5>1, <5>2, <5>3, <5>4
        <4> QED BY <1>same, <2>1, <4>1
      <3> QED BY <3>1, <3>2, <3>3
    <2> QED BY <1>same, <2>1, <2>2, <2>3
  <1>4. ASSUME NEW p \in pods, \/ LoadContext(p) \/ StopsWhenCancelled(p) \/ LateHeartbeat(p)
                               \/ Publish(p) \/ MarkFailed(p)
        PROVE  NameStep
    <2>1. run' = run \/ \E status : run' = [run EXCEPT !.status = status]
      BY <1>4 DEF LoadContext, StopsWhenCancelled, LateHeartbeat, Publish, MarkFailed
    <2> QED BY <1>0, <1>same, <2>1 DEF RunRow
  <1>5. CASE LeaseExpires \/ run' = run
    BY <1>0, <1>5, <1>same DEF LeaseExpires, RunRow
  <1> QED BY <1>1, <1>2, <1>3, <1>4, <1>5, RunWriters DEF RunMoves

\* Names are added, and none while the run is halted or has ended.
LEMMA NamesGrow ==
    ASSUME TypeInv, NameInv, MemoryInv, [Next]_vars
    PROVE  /\ Named' /\ CleanupJobNames \subseteq CleanupJobNames'
           /\ run.status \notin ActiveStatuses \/ halted => CleanupJobNames' = CleanupJobNames
           /\ run'.phase # "unplanned" => run.phase # "unplanned" \/ ~Refused
  <1>0. run \in RunRow /\ Named
    BY DEF TypeInv, FanOutTypeOK, NameInv
  <1> USE DEF Named, CleanupJobNames, CurrentJobName
  <1>1. CASE run'.phase = run.phase /\ run'.jobName = run.jobName /\ run'.shardJob = run.shardJob
    BY <1>0, <1>1
  <1>2. CASE /\ run'.phase = NextKind /\ run'.jobName = NextKind /\ run'.shardJob = run.shardJob
             /\ run.status = "queued" /\ ~halted /\ ~Refused
    <2>1. /\ run.phase \in {"unplanned", "shards", "finalizer"}
          /\ run.jobName \in {"none", "shards", "finalizer"}
      BY <1>0 DEF RunRow, Kinds
    <2> QED BY <1>0, <1>2, <2>1 DEF NextKind, ActiveStatuses
  <1>3. CASE /\ run.phase = "shards" /\ run'.phase = "finalizer" /\ run'.jobName = "none" /\ run'.shardJob
             /\ run.status = "running" /\ ~halted /\ ReceiptsComplete
    BY <1>0, <1>3 DEF ActiveStatuses
  <1> QED BY <1>1, <1>2, <1>3, AllNames DEF NameStep

\* Whatever begins to exist has a name that a cleanup looks at.
LEMMA NameNext ==
    ASSUME TypeInv, NameInv, MemoryInv, [Next]_vars
    PROVE  NameInv'
  <1>0. /\ ctl \in [Controllers -> ControllerState] /\ kjob \in [Kinds -> JobRow] /\ pods \subseteq PodState
        /\ Named' /\ CleanupJobNames \subseteq CleanupJobNames'
    BY NamesGrow DEF TypeInv, FanOutTypeOK
  <1>1. ASSUME NEW kind \in Kinds, kjob'[kind].state # "absent"
        PROVE  kind \in CleanupJobNames'
    <2>1. ASSUME NEW c \in Controllers, Made(c, kind)
          PROVE  kind \in CleanupJobNames
      BY <2>1 DEF Made, NameInv
    <2>2. CASE Gone(kind)
      BY <1>1, <2>2 DEF Gone, NoJob
    <2>3. ASSUME NEW p \in pods, p.kind = kind
          PROVE  kind \in CleanupJobNames
      BY <2>3 DEF NameInv
    <2>4. CASE kjob'[kind] = kjob[kind] \/ kjob'[kind] = [kjob[kind] EXCEPT !.deleting = TRUE]
      <3>1. kjob'[kind].state = kjob[kind].state
        BY <1>0, <2>4 DEF JobRow
      <3> QED BY <1>0, <1>1, <3>1 DEF NameInv
    <2> QED BY <1>0, <2>1, <2>2, <2>3, <2>4, ClusterMoves DEF JobMoves
  <1>2. ASSUME NEW p \in pods'
        PROVE  p.kind \in CleanupJobNames'
    <2>1. CASE p \in pods
      BY <1>0, <2>1 DEF NameInv
    <2>2. ASSUME NEW kind \in Kinds, NEW index \in Shards, StartPod(kind, index), p \notin pods
          PROVE  p.kind \in CleanupJobNames
      <3>1. p.kind = kind /\ kjob[kind].state # "absent"
        BY <1>2, <2>2 DEF StartPod
      <3> QED BY <3>1 DEF NameInv
    <2>3. ASSUME NEW q \in pods, Moves(q, p)
          PROVE  p.kind \in CleanupJobNames
      <3>1. p.kind = q.kind
        BY <1>0, <2>3 DEF Moves, PodState
      <3> QED BY <3>1 DEF NameInv
    <2>4. \/ p \in pods
          \/ \E kind \in Kinds, index \in Shards : StartPod(kind, index)
          \/ \E q \in pods : Moves(q, p)
      BY <1>2, ClusterMoves DEF PodMoves
    <2> QED BY <1>0, <2>1, <2>2, <2>3, <2>4
  <1>3. ASSUME NEW c \in Controllers, ctl'[c].phase # "idle"
        PROVE  ctl'[c].kind \in CleanupJobNames'
    <2>0. ctl[c] \in ControllerState
      BY <1>0
    <2>1. CASE ctl'[c].kind = ctl[c].kind /\ ctl[c].phase # "idle"
      BY <1>0, <2>1 DEF NameInv
    <2>2. CASE /\ run'.jobName = NextKind
               /\ ctl'[c] = [Idle EXCEPT !.phase = "dispatching", !.kind = NextKind, !.units = run'.units]
      <3>1. ctl'[c].kind = NextKind /\ NextKind # "none"
        BY <2>2, IdleMemory DEF ControllerState, NextKind
      <3> QED BY <2>2, <3>1 DEF CleanupJobNames, CurrentJobName
    <2>3. CASE ReconcileClaim(c) /\ ctl'[c].kind = run.jobName
      BY <1>0, <2>3 DEF ReconcileClaim, CleanupJobNames, CurrentJobName
    <2>4. CASE ctl'[c] = Idle
      BY <1>3, <2>4, IdleMemory
    <2>5. CASE ctl[c].phase = "dispatching" /\ ctl'[c] = [ctl[c] EXCEPT !.phase = "recording"]
      BY <2>0, <2>1, <2>5 DEF ControllerState
    <2>a. CASE /\ ctl[c].phase = "observing" /\ ~ctl[c].cleanup
               /\ ctl'[c] = [ctl[c] EXCEPT !.phase = "creating"]
      BY <2>0, <2>1, <2>a DEF ControllerState
    <2>6. CASE /\ ReconcileClaim(c)
               /\ ctl'[c] = [Idle EXCEPT !.phase = "observing", !.kind = run.jobName,
                                 !.units = run.units, !.status = run.status,
                                 !.halted = halted, !.attempts = run.attempts,
                                 !.cleanup = run.status \notin ActiveStatuses \/ halted,
                                 !.names = IF run.status \notin ActiveStatuses \/ halted
                                           THEN CleanupJobNames ELSE {}]
      <3>1. ctl'[c].kind = run.jobName
        BY <2>6, ClaimMemory
      <3> QED BY <2>3, <2>6, <3>1
    <2>7. CASE ctl'[c] = ctl[c]
      BY <1>3, <2>1, <2>7
    <2>8. ASSUME ObserveCleanup(c),
                 NEW kind \in ctl[c].names, NEW seen \in {"clean", "unclean"},
                 NEW phase \in {"observing", "applying"},
                 ctl'[c] = [ctl[c] EXCEPT !.names = ctl[c].names \ {kind}, !.seen = seen, !.phase = phase]
          PROVE  ctl'[c].kind \in CleanupJobNames'
      <3>1. ctl'[c].kind = ctl[c].kind
        BY <2>0, <2>8 DEF ControllerState
      <3>2. ctl[c].phase = "observing"
        BY <2>8 DEF ObserveCleanup
      <3> QED BY <2>1, <3>1, <3>2
    <2>9. ASSUME ctl[c].phase \in {"observing", "creating"},
                 NEW seen \in Observations \ {"clean", "unclean"},
                 ctl'[c] = [ctl[c] EXCEPT !.phase = "applying", !.seen = seen]
          PROVE  ctl'[c].kind \in CleanupJobNames'
      BY <2>0, <2>1, <2>9 DEF ControllerState
    <2>10. Remembers(c)
      BY AllRemember
    <2> QED BY <2>2, <2>4, <2>5, <2>a, <2>6, <2>7, <2>8, <2>9, <2>10 DEF Remembers
  <1> QED BY <1>0, <1>1, <1>2, <1>3 DEF NameInv

\* Who writes the rest of the state.
LEMMA OtherWriters ==
    ASSUME [Next]_vars
    PROVE  /\ raster' = raster
           /\ halted' = halted \/ CancelMission
           /\ receipts' = receipts \/ \E p \in pods : RecordReceipt(p)
           /\ artifact' = artifact \/ \E p \in pods : Publish(p)
           /\ others' = others \/ ReserveOther \/ ReleaseOther
           /\ (ledger' = ledger /\ reservations' = reservations) \/ \E c \in Controllers : Reserve(c)
           /\ (leader' = leader /\ working' = working) \/ \E c \in Controllers : TakeOver(c) \/ TickEnds(c)
           /\ accidents' = accidents \/ \E kind \in Faults : accidents' = accidents \cup {kind}
  <1> USE DEF database, control, history, PodUnchanged, ClusterUnchanged
  <1>a. ASSUME NEW kind, Accident(kind)
        PROVE  reservations' = reservations /\ \E k \in Faults : accidents' = accidents \cup {k}
    BY <1>a DEF Accident
  <1>1. ASSUME NEW c \in Controllers, Reserve(c)
        PROVE  /\ UNCHANGED <<raster, halted, receipts, artifact, others, leader, working, accidents>>
    BY <1>1 DEF Reserve
  <1>2. ASSUME NEW c \in Controllers, \/ RecordDispatchError(c) \/ ReconcileClaim(c) \/ ReconcileApply(c)
                                      \/ Dispatch(c) \/ ObserveCleanup(c) \/ ObserveJob(c) \/ RecreateJob(c)
        PROVE  UNCHANGED <<raster, halted, receipts, artifact, others, ledger, leader, working, history>>
    BY <1>2 DEF RecordDispatchError, ReconcileClaim, ReconcileApply, Dispatch, ObserveCleanup, ObserveJob,
       RecreateJob
  <1>3. ASSUME NEW c \in Controllers, \/ DispatchFails(c) \/ ObserveFails(c) \/ RecreateJobFails(c)
                                      \/ ControllerCrash(c)
        PROVE  /\ UNCHANGED <<raster, halted, receipts, artifact, others, ledger, leader, working>>
               /\ \E kind : Accident(kind)
    BY <1>3 DEF DispatchFails, ObserveFails, RecreateJobFails, ControllerCrash
  <1>4. ASSUME NEW c \in Controllers, TakeOver(c)
        PROVE  UNCHANGED database /\ \E kind : Accident(kind)
    BY <1>4 DEF TakeOver
  <1>5. ASSUME NEW c \in Controllers, TickEnds(c)
        PROVE  UNCHANGED database /\ UNCHANGED history
    BY <1>5 DEF TickEnds
  <1>6. ASSUME NEW p \in pods, \/ LoadContext(p) \/ StopsWhenCancelled(p) \/ LateHeartbeat(p) \/ Aggregate(p)
                               \/ PodSucceeds(p) \/ MarkFailed(p)
        PROVE  UNCHANGED <<raster, halted, receipts, artifact, others, ledger, leader, working, history>>
    BY <1>6 DEF LoadContext, StopsWhenCancelled, LateHeartbeat, Aggregate, PodSucceeds, MarkFailed
  <1>7. ASSUME NEW p \in pods, Publish(p)
        PROVE  UNCHANGED <<raster, halted, receipts, others, ledger, leader, working, history>>
    BY <1>7 DEF Publish
  <1>8. ASSUME NEW p \in pods, RecordReceipt(p)
        PROVE  /\ UNCHANGED <<raster, halted, artifact, others, ledger, leader, working>>
               /\ UNCHANGED history \/ \E kind : Accident(kind)
    BY <1>8 DEF RecordReceipt, Inferred
  <1>9. ASSUME NEW p \in pods, HandlerRaises(p) \/ PodKilled(p) \/ PodTerminated(p)
        PROVE  UNCHANGED <<database, control>> /\ (UNCHANGED history \/ \E kind : Accident(kind))
    BY <1>9 DEF HandlerRaises, PodKilled, PodTerminated
  <1>10. ASSUME NEW kind \in Kinds, ClusterStep(kind)
         PROVE  UNCHANGED <<database, control>> /\ (UNCHANGED history \/ \E k : Accident(k))
    BY <1>10 DEF ClusterStep, StartPod, JobRemoved, JobVanishes
  <1>11. CASE LeaseExpires
    <2>1. /\ UNCHANGED <<raster, halted, receipts, artifact, others, ledger, leader, working>>
          /\ UNCHANGED history \/ \E kind : Accident(kind)
      BY <1>11 DEF LeaseExpires
    <2> QED BY <1>a, <2>1
  <1>12. CASE ReserveOther \/ ReleaseOther \/ CancelMission \/ UNCHANGED vars
    BY <1>12 DEF ReserveOther, ReleaseOther, CancelMission, vars
  <1>13. ASSUME NEW c \in Controllers, ControllerStep(c)
         PROVE  \/ Reserve(c) \/ TakeOver(c) \/ TickEnds(c)
                \/ /\ UNCHANGED <<raster, halted, receipts, artifact, others, ledger, leader, working>>
                   /\ UNCHANGED history \/ \E kind : Accident(kind)
    BY <1>2, <1>3, <1>13 DEF ControllerStep
  <1>14. ASSUME NEW p \in pods, PodStep(p)
         PROVE  /\ UNCHANGED <<raster, halted, others, ledger, leader, working>>
                /\ UNCHANGED history \/ \E kind : Accident(kind)
                /\ receipts' = receipts \/ RecordReceipt(p)
                /\ artifact' = artifact \/ Publish(p)
    BY <1>6, <1>7, <1>8, <1>9, <1>14 DEF PodStep
  <1> QED BY <1>a, <1>1, <1>4, <1>5, <1>10, <1>11, <1>12, <1>13, <1>14 DEF Next

\* There is a row for each of the two Jobs.
LEMMA JobFunction ==
    ASSUME TypeInv, [Next]_vars
    PROVE  kjob' = [kind \in Kinds |-> kjob'[kind]]
  <1>0. kjob \in [Kinds -> JobRow]
    BY DEF TypeInv
  <1>one. ASSUME NEW name, NEW row, kjob' = kjob \/ kjob' = [kjob EXCEPT ![name] = row]
          PROVE  kjob' = [kind \in Kinds |-> kjob'[kind]]
    BY <1>0, <1>one
  <1> DEFINE One == kjob' = kjob \/ \E name, row : kjob' = [kjob EXCEPT ![name] = row]
  <1>made. ASSUME NEW kind, NEW units, kjob' = Created(kind, units) PROVE One
    BY <1>made DEF Created
  <1>exits. ASSUME NEW p \in pods, NEW succeeded, PodExits(p, succeeded) PROVE One
    <2>1. p.kind \in Kinds
      BY DEF TypeInv, FanOutTypeOK, PodState
    <2>2. ASSUME NEW done, NEW state, kjob' = [kjob EXCEPT ![p.kind].done = done, ![p.kind].state = state]
          PROVE  One
      <3>1. kjob' = [kjob EXCEPT ![p.kind] = [kjob[p.kind] EXCEPT !.done = done, !.state = state]]
        BY <1>0, <2>1, <2>2
      <3> QED BY <3>1
    <2>3. ASSUME NEW state, kjob' = [kjob EXCEPT ![p.kind].state = state]
          PROVE  One
      BY <2>3
    <2>4. \/ kjob' = kjob
          \/ \E state : kjob' = [kjob EXCEPT ![p.kind].state = state]
          \/ \E done, state : kjob' = [kjob EXCEPT ![p.kind].done = done, ![p.kind].state = state]
      BY <1>exits DEF PodExits
    <2> QED BY <2>2, <2>3, <2>4
  <1>1. ASSUME NEW c \in Controllers, ControllerStep(c)
        PROVE  One
    <2>1. CASE Dispatch(c) \/ DispatchFails(c) \/ RecreateJob(c) \/ RecreateJobFails(c)
      BY <1>made, <2>1 DEF Dispatch, DispatchFails, RecreateJob, RecreateJobFails
    <2>2. CASE ObserveCleanup(c)
      BY <2>2 DEF ObserveCleanup
    <2>3. CASE \/ Reserve(c) \/ RecordDispatchError(c) \/ ReconcileClaim(c) \/ ObserveJob(c) \/ ObserveFails(c)
               \/ ReconcileApply(c) \/ ControllerCrash(c) \/ TakeOver(c) \/ TickEnds(c)
      BY <2>3 DEF Reserve, RecordDispatchError, ReconcileClaim, ObserveJob, ObserveFails, ReconcileApply,
         ControllerCrash, TakeOver, TickEnds, cluster
    <2> QED BY <1>1, <2>1, <2>2, <2>3 DEF ControllerStep
  <1>2. ASSUME NEW p \in pods, PodStep(p)
        PROVE  One
    <2>1. CASE LoadContext(p) \/ StopsWhenCancelled(p) \/ PodSucceeds(p) \/ MarkFailed(p) \/ PodKilled(p)
      BY <1>exits, <2>1 DEF LoadContext, StopsWhenCancelled, PodSucceeds, MarkFailed, PodKilled
    <2>2. CASE \/ LateHeartbeat(p) \/ RecordReceipt(p) \/ Aggregate(p) \/ Publish(p) \/ HandlerRaises(p)
               \/ PodTerminated(p)
      BY <2>2 DEF LateHeartbeat, RecordReceipt, Aggregate, Publish, HandlerRaises, PodTerminated, cluster
    <2> QED BY <1>2, <2>1, <2>2 DEF PodStep
  <1>3. ASSUME NEW kind \in Kinds, ClusterStep(kind)
        PROVE  One
    BY <1>3 DEF ClusterStep, StartPod, JobRemoved, JobVanishes
  <1>4. CASE ReserveOther \/ ReleaseOther \/ CancelMission \/ LeaseExpires \/ UNCHANGED vars
    <2>1. kjob' = kjob
      BY <1>4 DEF ReserveOther, ReleaseOther, CancelMission, LeaseExpires, vars, cluster
    <2> QED BY <1>one, <2>1
  <1> QED BY <1>one, <1>1, <1>2, <1>3, <1>4 DEF Next

\* A Job that is not there.
LEMMA NoJobRow ==
    /\ NoJob.state = "absent" /\ ~NoJob.deleting /\ NoJob.done = {} /\ NoJob.units = 0
    /\ \A incarnation \in Nat : [NoJob EXCEPT !.incarnation = incarnation] \in JobRow
  <1>1. 0 \in 0..Parallelism
    BY FanOutAssumption
  <1> QED BY <1>1 DEF NoJob, JobRow, JobStates

\* A Job that is created.
LEMMA MadeRow ==
    ASSUME NEW units \in 0..Parallelism, NEW incarnation \in Nat
    PROVE  /\ Fresh(units, incarnation) \in JobRow /\ Fresh(units, incarnation).units = units
           /\ Fresh(units, incarnation).incarnation = incarnation
  <1>1. NoJob \in JobRow
    <2>1. 0 \in 0..Parallelism
      BY FanOutAssumption
    <2> QED BY <2>1 DEF NoJob, JobRow, JobStates
  <1> HIDE DEF NoJob
  <1> QED BY <1>1 DEF JobRow, JobStates, Fresh

\* The Jobs and the Pods keep their types.
LEMMA ClusterType ==
    ASSUME TypeInv, NameInv, [Next]_vars
    PROVE  /\ kjob' \in [Kinds -> JobRow] /\ pods' \subseteq PodState /\ IsFiniteSet(pods')
  <1>0. /\ kjob \in [Kinds -> JobRow] /\ pods \subseteq PodState /\ IsFiniteSet(pods)
        /\ ctl \in [Controllers -> ControllerState]
        /\ receipts \in [Shards -> Results \cup {NoResult}]
    BY DEF TypeInv, FanOutTypeOK
  <1>1. ASSUME NEW kind \in Kinds
        PROVE  kjob'[kind] \in JobRow
    <2>0. kjob[kind] \in JobRow
      BY <1>0
    <2>1. CASE \/ kjob'[kind] = kjob[kind] \/ kjob'[kind] = [kjob[kind] EXCEPT !.deleting = TRUE]
      BY <2>0, <2>1 DEF JobRow
    <2>2. CASE Gone(kind)
      <3>1. kjob[kind].incarnation \in Nat
        BY <2>0 DEF JobRow
      <3> QED BY <2>2, <3>1, NoJobRow DEF Gone
    <2>3. ASSUME NEW c \in Controllers, Made(c, kind)
          PROVE  kjob'[kind] \in JobRow
      <3>1. ctl[c].units \in 0..Parallelism /\ kjob[kind].incarnation + 1 \in Nat
        BY <1>0, <2>0 DEF ControllerState, JobRow
      <3> QED BY <2>3, <3>1, MadeRow DEF Made
    <2>4. ASSUME NEW p \in pods, p.kind = kind, JobEnds(p)
          PROVE  kjob'[kind] \in JobRow
      <3>1. p.index \in Shards
        BY <1>0 DEF PodState
      <3>2. PICK done \in {kjob[kind].done, kjob[kind].done \cup {p.index}},
                 state \in {"active", "complete", "failed"} :
                   kjob'[kind] = [kjob[kind] EXCEPT !.done = done, !.state = state]
        BY <2>4 DEF JobEnds
      <3>3. done \in SUBSET Shards /\ state \in JobStates
        BY <2>0, <3>1 DEF JobRow, JobStates
      <3> QED BY <2>0, <3>2, <3>3 DEF JobRow
    <2> QED BY <2>1, <2>2, <2>3, <2>4, ClusterMoves DEF JobMoves
  <1>2. kjob' \in [Kinds -> JobRow]
    BY <1>1, JobFunction
  <1>3. CASE pods' \subseteq pods
    <2>1. pods' \in SUBSET pods
      BY <1>3
    <2> QED BY <1>0, <1>2, <1>3, <2>1, FS_Subset
  <1>4. ASSUME NEW kind \in Kinds, NEW index \in Shards, StartPod(kind, index)
        PROVE  pods' \subseteq PodState /\ IsFiniteSet(pods')
    <2> DEFINE pod == [kind |-> kind, index |-> index, incarnation |-> kjob[kind].incarnation,
                       phase |-> "starting", content |-> NoReceipts]
    <2>1. pod \in PodState
      BY <1>0 DEF PodState, PodPhases, JobRow, NoReceipts
    <2>2. pods' = pods \cup {pod}
      BY <1>4 DEF StartPod
    <2> HIDE DEF pod
    <2> QED BY <1>0, <2>1, <2>2, FS_AddElement
  <1>5. ASSUME NEW q \in pods, NEW p, Moves(q, p), pods' = (pods \ {q}) \cup {p}
        PROVE  pods' \subseteq PodState /\ IsFiniteSet(pods')
    <2>1. p \in PodState
      BY <1>0, <1>5 DEF Moves, PodState, PodPhases
    <2> QED BY <1>0, <1>5, <2>1, FS_AddElement, FS_RemoveElement
  <1> QED BY <1>2, <1>3, <1>4, <1>5, ClusterMoves DEF PodMoves

\* The rest of the state keeps its types.
LEMMA OtherTypes ==
    ASSUME TypeInv, [Next]_vars
    PROVE  /\ raster' \in Rasters /\ halted' \in BOOLEAN
           /\ receipts' \in [Shards -> Results \cup {NoResult}]
           /\ artifact' \in [Shards -> Results \cup {NoResult}]
           /\ others' \in 0..GlobalActive /\ ledger' \subseteq 0..MaximumDispatchAttempts + 1
           /\ leader' \in working' /\ working' \subseteq Controllers
           /\ reservations' \in Nat /\ accidents' \subseteq Faults
  <1>0. /\ raster \in Rasters /\ halted \in BOOLEAN /\ run \in RunRow /\ pods \subseteq PodState
        /\ receipts \in [Shards -> Results \cup {NoResult}]
        /\ artifact \in [Shards -> Results \cup {NoResult}]
        /\ others \in 0..GlobalActive /\ ledger \subseteq 0..MaximumDispatchAttempts + 1
        /\ leader \in working /\ working \subseteq Controllers
        /\ reservations \in Nat /\ accidents \subseteq Faults
        /\ GlobalActive \in Nat \ {0} /\ MaximumDispatchAttempts \in Nat \ {0}
    BY FanOutAssumption DEF TypeInv, FanOutTypeOK
  <1>1. raster' \in Rasters /\ halted' \in BOOLEAN /\ accidents' \subseteq Faults
    BY <1>0, OtherWriters DEF CancelMission
  <1>2. receipts' \in [Shards -> Results \cup {NoResult}]
    <2>1. ASSUME NEW p \in pods, RecordReceipt(p)
          PROVE  receipts' \in [Shards -> Results \cup {NoResult}]
      BY <1>0, <2>1 DEF RecordReceipt
    <2> QED BY <1>0, <2>1, OtherWriters
  <1>3. artifact' \in [Shards -> Results \cup {NoResult}]
    <2>1. ASSUME NEW p \in pods, Publish(p)
          PROVE  artifact' \in [Shards -> Results \cup {NoResult}]
      BY <1>0, <2>1 DEF Publish, PodState
    <2> QED BY <1>0, <2>1, OtherWriters
  <1>4. others' \in 0..GlobalActive
    <2>1. CASE ReserveOther
      <3>1. UnitsHeld \in Nat
        BY <1>0 DEF UnitsHeld, RunRow
      <3> QED BY <1>0, <2>1, <3>1 DEF ReserveOther
    <2>2. CASE ReleaseOther
      BY <1>0, <2>2 DEF ReleaseOther
    <2> QED BY <1>0, <2>1, <2>2, OtherWriters
  <1>5. ledger' \subseteq 0..MaximumDispatchAttempts + 1 /\ reservations' \in Nat
    <2>1. ASSUME NEW c \in Controllers, Reserve(c)
          PROVE  ledger' \subseteq 0..MaximumDispatchAttempts + 1 /\ reservations' \in Nat
      <3>1. run.attempts \in Nat /\ run.attempts < MaximumDispatchAttempts
        BY <1>0, <2>1 DEF Reserve, RunRow
      <3>2. /\ ledger' = ledger \/ ledger' = ledger \cup {run.attempts + 1}
            /\ reservations' \in {reservations, reservations + 1}
        BY <2>1 DEF Reserve
      <3>3. run.attempts + 1 \in 0..MaximumDispatchAttempts + 1
        BY <1>0, <3>1
      <3>4. ledger' \subseteq 0..MaximumDispatchAttempts + 1
        BY <1>0, <3>2, <3>3, Zenon
      <3> QED BY <1>0, <3>2, <3>4
    <2> QED BY <1>0, <2>1, OtherWriters
  <1>6. leader' \in working' /\ working' \subseteq Controllers
    <2>1. ASSUME NEW c \in Controllers, TakeOver(c) \/ TickEnds(c)
          PROVE  leader' \in working' /\ working' \subseteq Controllers
      BY <1>0, <2>1 DEF TakeOver, TickEnds
    <2> QED BY <1>0, <2>1, OtherWriters
  <1> QED BY <1>1, <1>2, <1>3, <1>4, <1>5, <1>6

\* The state is well formed: types, names and memories.
FormInv == TypeInv /\ NameInv /\ MemoryInv

\* It is to begin with.
LEMMA FormInit == Init => FormInv
  <1> SUFFICES ASSUME Init PROVE FormInv
    OBVIOUS
  <1>0. /\ Parallelism \in Nat \ {0} /\ GlobalActive \in Nat \ {0} /\ MaximumDispatchAttempts \in Nat \ {0}
        /\ Controllers # {}
    BY FanOutAssumption
  <1>1. run \in RunRow /\ run.attempts = 0 /\ run.phase = "unplanned" /\ ledger = {}
    BY <1>0 DEF Init, RunRow, ActiveStatuses
  <1>2. NoReceipts \in [Shards -> Results \cup {NoResult}]
    BY DEF NoReceipts
  <1>3. leader \in Controllers
    BY <1>0 DEF Init
  <1>4. ctl \in [Controllers -> ControllerState]
    BY IdleMemory DEF Init
  <1>5. kjob \in [Kinds -> JobRow]
    <2>1. NoJob \in JobRow
      BY <1>0 DEF NoJob, JobRow, JobStates
    <2> QED BY <2>1 DEF Init
  <1>6. FanOutTypeOK
    <2>1. \A kind \in Kinds : /\ kjob[kind].state \in JobStates /\ kjob[kind].units \in 0..Parallelism
                              /\ kjob[kind].done \subseteq Shards
      BY <1>5 DEF JobRow
    <2>2. {run.attempts} \cup ledger \subseteq 0..MaximumDispatchAttempts + 1
      BY <1>0, <1>1
    <2>3. leader \in working /\ working \subseteq Controllers
      BY <1>3 DEF Init
    <2>a. /\ halted = FALSE /\ receipts = NoReceipts /\ artifact = NoReceipts /\ others = 0
          /\ pods = {} /\ reservations = 0 /\ accidents = {}
      BY DEF Init
    <2>b. halted \in BOOLEAN
      BY <2>a
    <2>4. /\ receipts \in [Shards -> Results \cup {NoResult}]
          /\ artifact \in [Shards -> Results \cup {NoResult}] /\ others \in 0..GlobalActive
          /\ pods \subseteq PodState /\ reservations \in Nat /\ accidents \subseteq Faults
      BY <1>0, <1>2, <2>a
    <2> QED BY <1>1, <1>4, <2>1, <2>2, <2>3, <2>4, <2>b DEF FanOutTypeOK
  <1>7. TypeInv
    BY <1>0, <1>1, <1>5, <1>6, FS_EmptySet DEF TypeInv, Init
  <1>8. NameInv
    BY <1>1, IdleMemory, NoJobRow DEF Init, NameInv, Named
  <1>9. MemoryInv
    BY IdleMemory DEF Init, MemoryInv, Memory, Reconciling
  <1> QED BY <1>7, <1>8, <1>9 DEF FormInv

\* Every step keeps it so.
LEMMA FormNext == FormInv /\ [Next]_vars => FormInv'
  <1> SUFFICES ASSUME FormInv, [Next]_vars PROVE FormInv'
    OBVIOUS
  <1>0. TypeInv /\ NameInv /\ MemoryInv
    BY DEF FormInv
  <1>1. /\ run' \in RunRow /\ run'.attempts \in 0..MaximumDispatchAttempts + 1
        /\ run'.status \in ActiveStatuses => run'.attempts <= MaximumDispatchAttempts
    BY <1>0, RunType
  <1>2. kjob' \in [Kinds -> JobRow] /\ pods' \subseteq PodState /\ IsFiniteSet(pods')
    BY <1>0, ClusterType
  <1>3. ctl' \in [Controllers -> ControllerState] /\ MemoryInv'
    BY <1>0, MemoryNext
  <1>4. NameInv'
    BY <1>0, NameNext
  <1>5. /\ raster' \in Rasters /\ halted' \in BOOLEAN
        /\ receipts' \in [Shards -> Results \cup {NoResult}]
        /\ artifact' \in [Shards -> Results \cup {NoResult}]
        /\ others' \in 0..GlobalActive /\ ledger' \subseteq 0..MaximumDispatchAttempts + 1
        /\ leader' \in working' /\ working' \subseteq Controllers
        /\ reservations' \in Nat /\ accidents' \subseteq Faults
    BY <1>0, OtherTypes
  <1>6. FanOutTypeOK'
    <2>1. \A kind \in Kinds : /\ kjob'[kind].state \in JobStates /\ kjob'[kind].units \in 0..Parallelism
                              /\ kjob'[kind].done \subseteq Shards
      BY <1>2 DEF JobRow
    <2>2. {run'.attempts} \cup ledger' \subseteq 0..MaximumDispatchAttempts + 1
      BY <1>1, <1>5
    <2> QED BY <1>1, <1>2, <1>3, <1>5, <2>1, <2>2 DEF FanOutTypeOK
  <1>7. run'.phase # "unplanned" => ~Refused'
    <2>1. raster' = raster
      BY OtherWriters
    <2>2. run'.phase # "unplanned" => ~Refused
      BY <1>0, NamesGrow DEF TypeInv
    <2> QED BY <2>1, <2>2 DEF Refused, Planned
  <1>8. TypeInv'
    BY <1>1, <1>2, <1>5, <1>6, <1>7 DEF TypeInv
  <1> QED BY <1>3, <1>4, <1>8 DEF FormInv

\* Hence it always is.
LEMMA FormCorrect == Spec => []FormInv
  BY FormInit, FormNext, PTL DEF Spec

\* Whatever happens, the rows, the Jobs, the Pods and what the control workers
\* hold in memory are well formed, and no attempt is counted beyond the limit.
THEOREM FanOutTypeCorrect == Spec => []FanOutTypeOK
  <1>1. FormInv => FanOutTypeOK
    BY DEF FormInv, TypeInv
  <1> QED BY <1>1, FormCorrect, PTL

-----------------------------------------------------------------------------
(* A durable receipt is for good. *)

\* The lock of the run's row makes the comparison with the receipt that is
\* there and the write one step, whoever writes.
THEOREM ReceiptsCorrect == Spec => ReceiptsKept
  <1>1. ASSUME FormInv, [Next]_vars, NEW shard \in Shards, receipts[shard] # NoResult
        PROVE  receipts'[shard] = receipts[shard]
    <2>0. receipts \in [Shards -> Results \cup {NoResult}]
      BY <1>1 DEF FormInv, TypeInv, FanOutTypeOK
    <2>1. ASSUME NEW p \in pods, RecordReceipt(p)
          PROVE  receipts'[shard] = receipts[shard]
      BY <1>1, <2>0, <2>1 DEF RecordReceipt, ReceiptAccepted
    <2> QED BY <1>1, <2>1, OtherWriters
  <1>2. FormInv /\ [Next]_vars
           => [\A shard \in Shards : receipts[shard] # NoResult => receipts'[shard] = receipts[shard]]_vars
    BY <1>1
  <1> QED BY <1>2, FormCorrect, PTL DEF Spec, ReceiptsKept

-----------------------------------------------------------------------------
(* Evidence that nobody writes any more. *)

\* A run that is over, or whose mission is cancelled, and Pods that write for it.
Dead == run.status \notin ActiveStatuses \/ halted
Writer(p) == p.phase \in {"executing", "aggregated"}

\* A cleanup looks at dead runs only; what it has not looked at yet, or found
\* unclean, is all that may be written.
EvidenceInv ==
    /\ run.cleaned => Dead /\ \A p \in pods : ~Writer(p)
    /\ \A c \in Controllers : Reconciling(c) /\ ctl[c].cleanup =>
         /\ Dead
         /\ ctl[c].phase = "observing" /\ ctl[c].seen # "unclean"
              => \A p \in pods : Writer(p) => p.kind \in ctl[c].names
         /\ ctl[c].phase = "applying" /\ ctl[c].seen = "clean"
              => \A p \in pods : ~Writer(p)

\* The dead stay dead.
LEMMA DeadForGood ==
    ASSUME FormInv, [Next]_vars, Dead
    PROVE  Dead'
  <1>1. run'.status \in ActiveStatuses => run.status \in ActiveStatuses
    BY RunType DEF FormInv
  <1>2. halted => halted'
    BY OtherWriters DEF CancelMission
  <1> QED BY <1>1, <1>2 DEF Dead

\* No Pod begins to write for a dead run.
LEMMA NoNewWriter ==
    ASSUME FormInv, [Next]_vars, Dead, NEW p \in pods', Writer(p)
    PROVE  \E q \in pods : Writer(q) /\ q.kind = p.kind
  <1>0. pods \subseteq PodState
    BY DEF FormInv, TypeInv, FanOutTypeOK
  <1>1. ASSUME NEW kind \in Kinds, NEW index \in Shards, StartPod(kind, index), p \notin pods
        PROVE  FALSE
    BY <1>1 DEF StartPod, Writer
  <1>2. ASSUME NEW q \in pods, Moves(q, p)
        PROVE  Writer(q) /\ q.kind = p.kind
    BY <1>0, <1>2 DEF Moves, Writer, Dead, PodState
  <1>3. \/ p \in pods
        \/ \E kind \in Kinds, index \in Shards : StartPod(kind, index)
        \/ \E q \in pods : Moves(q, p)
    BY ClusterMoves DEF PodMoves, FormInv
  <1> QED BY <1>1, <1>2, <1>3

\* Who confirms a cleanup.
LEMMA CleanedBy ==
    ASSUME FormInv, [Next]_vars, run'.cleaned, ~run.cleaned
    PROVE  \E c \in Controllers : ctl[c].phase = "applying" /\ ctl[c].seen = "clean" /\ pods' = pods
  <1>0. run \in RunRow
    BY DEF FormInv, TypeInv, FanOutTypeOK
  <1>1. ASSUME NEW c \in Controllers, ReconcileApply(c)
        PROVE  ctl[c].phase = "applying" /\ ctl[c].seen = "clean" /\ pods' = pods
    <2> DEFINE released == [run EXCEPT !.token = NoController, !.leaseLive = FALSE]
    <2>1. released \in RunRow /\ ~released.cleaned
      BY <1>0 DEF RunRow
    <2>2. run' \in {run, released} \/ run' = AppliedTo(released, c)
      BY <1>1 DEF ReconcileApply
    <2> HIDE DEF released
    <2>3. AppliedTo(released, c).cleaned => ctl[c].seen = "clean"
      <3>1. CASE ctl[c].seen \in {"missing", "missing_error"}
        BY <2>1, <3>1 DEF AppliedTo, RunRow
      <3>2. CASE ctl[c].seen = "unclean"
        BY <2>1, <3>2 DEF AppliedTo, RunRow
      <3>3. CASE ctl[c].seen \in {"failed", "active"}
        BY <2>1, <3>3 DEF AppliedTo, RunRow
      <3>4. CASE ctl[c].seen = "complete"
        BY <2>1, <3>4 DEF AppliedTo, PhaseEnds, RunRow
      <3>5. CASE ctl[c].seen \notin {"missing", "missing_error", "clean", "unclean", "failed",
                                     "complete", "active"}
        BY <2>1, <3>5 DEF AppliedTo
      <3> QED BY <3>1, <3>2, <3>3, <3>4, <3>5
    <2> QED BY <1>1, <2>1, <2>2, <2>3 DEF ReconcileApply, cluster
  <1>2. ASSUME NEW c \in Controllers, Reserve(c) \/ RecordDispatchError(c) \/ ReconcileClaim(c)
        PROVE  FALSE
    <2>1. CASE Reserve(c)
      <3>1. \/ run' = [run EXCEPT !.status = "failed"]
            \/ \E granted : run' = [run EXCEPT !.phase = NextKind, !.dispatched = TRUE,
                                      !.jobName = NextKind, !.units = granted, !.attempts = @ + 1]
        BY <2>1 DEF Reserve
      <3> QED BY <1>0, <3>1 DEF RunRow
    <2>2. CASE RecordDispatchError(c) \/ ReconcileClaim(c)
      BY <1>0, <2>2 DEF RecordDispatchError, ReconcileClaim, RunRow
    <2> QED BY <1>2, <2>1, <2>2
  <1>3. ASSUME NEW p \in pods, \/ LoadContext(p) \/ StopsWhenCancelled(p) \/ LateHeartbeat(p)
                               \/ Publish(p) \/ MarkFailed(p)
        PROVE  FALSE
    <2>1. run' = run \/ \E status : run' = [run EXCEPT !.status = status]
      BY <1>3 DEF LoadContext, StopsWhenCancelled, LateHeartbeat, Publish, MarkFailed
    <2> QED BY <1>0, <2>1 DEF RunRow
  <1>4. CASE LeaseExpires \/ run' = run
    BY <1>0, <1>4 DEF LeaseExpires, RunRow
  <1> QED BY <1>1, <1>2, <1>3, <1>4, RunWriters DEF RunMoves

\* Nothing is in evidence to begin with, and every step keeps what is.
LEMMA EvidenceNext == FormInv /\ EvidenceInv /\ [Next]_vars => EvidenceInv'
  <1> SUFFICES ASSUME FormInv, EvidenceInv, [Next]_vars PROVE EvidenceInv'
    OBVIOUS
  <1>0. ctl \in [Controllers -> ControllerState] /\ TypeInv /\ NameInv /\ MemoryInv
    BY DEF FormInv, TypeInv, FanOutTypeOK
  <1>1. ASSUME run'.cleaned
        PROVE  Dead' /\ \A p \in pods' : ~Writer(p)
    <2>1. Dead /\ \A p \in pods : ~Writer(p)
      <3>1. CASE run.cleaned
        BY <3>1 DEF EvidenceInv
      <3>2. CASE ~run.cleaned
        <4>1. PICK c \in Controllers : ctl[c].phase = "applying" /\ ctl[c].seen = "clean"
          BY <1>1, <3>2, CleanedBy
        <4>2. Reconciling(c) /\ ctl[c].cleanup
          BY <1>0, <4>1 DEF MemoryInv, Memory, Reconciling
        <4> QED BY <4>1, <4>2 DEF EvidenceInv
      <3> QED BY <3>1, <3>2
    <2> QED BY <2>1, DeadForGood, NoNewWriter
  <1>2. ASSUME NEW c \in Controllers, Reconciling(c)', ctl'[c].cleanup
        PROVE  /\ Dead'
               /\ ctl'[c].phase = "observing" /\ ctl'[c].seen # "unclean"
                    => \A p \in pods' : Writer(p) => p.kind \in ctl'[c].names
               /\ ctl'[c].phase = "applying" /\ ctl'[c].seen = "clean"
                    => \A p \in pods' : ~Writer(p)
    <2> DEFINE Goal == /\ Dead
                       /\ ctl'[c].phase = "observing" /\ ctl'[c].seen # "unclean"
                            => \A p \in pods : Writer(p) => p.kind \in ctl'[c].names
                       /\ ctl'[c].phase = "applying" /\ ctl'[c].seen = "clean"
                            => \A p \in pods : ~Writer(p)
    <2> SUFFICES Goal
      BY DeadForGood, NoNewWriter
    <2>0. ctl[c] \in ControllerState
      BY <1>0
    <2>1. CASE ctl'[c] = ctl[c]
      BY <1>2, <2>1 DEF EvidenceInv, Reconciling
    <2>2. CASE ctl'[c] = Idle
      BY <1>2, <2>2, IdleMemory
    <2>3. CASE /\ Reserve(c) /\ ~Refused /\ run'.units = AtMost(RequestedUnits, GlobalActive - others)
               /\ ctl'[c] = [Idle EXCEPT !.phase = "dispatching", !.kind = NextKind, !.units = run'.units]
      <3>1. ~ctl'[c].cleanup
        BY <2>3 DEF Idle
      <3> QED BY <1>2, <3>1
    <2>4. CASE ctl[c].phase = "dispatching" /\ ctl'[c] = [ctl[c] EXCEPT !.phase = "recording"]
      <3>1. ctl'[c].phase = "recording"
        BY <2>0, <2>4 DEF ControllerState
      <3> QED BY <1>2, <3>1 DEF Reconciling
    <2>5. CASE ReconcileClaim(c) /\ ctl'[c] = [Idle EXCEPT !.phase = "observing", !.kind = run.jobName,
                                 !.units = run.units, !.status = run.status,
                                 !.halted = halted, !.attempts = run.attempts,
                                 !.cleanup = run.status \notin ActiveStatuses \/ halted,
                                 !.names = IF run.status \notin ActiveStatuses \/ halted
                                           THEN CleanupJobNames ELSE {}]
      <3>1. /\ ctl'[c].phase = "observing"
            /\ ctl'[c].cleanup = (run.status \notin ActiveStatuses \/ halted)
            /\ ctl'[c].names = IF run.status \notin ActiveStatuses \/ halted THEN CleanupJobNames ELSE {}
        BY <1>0, <2>5, ClaimMemory
      <3>2. Dead /\ ctl'[c].names = CleanupJobNames
        BY <1>2, <3>1 DEF Dead
      <3>3. Goal
        BY <1>0, <3>1, <3>2 DEF NameInv
      <3> QED BY <3>3
    <2>6. ASSUME ObserveCleanup(c),
                 NEW kind \in ctl[c].names, NEW seen \in {"clean", "unclean"},
                 NEW phase \in {"observing", "applying"},
                 seen = "clean" => /\ kjob[kind].state = "absent" /\ PodsOf(kind) = {}
                                   /\ ctl[c].seen # "unclean",
                 phase = "applying" => ctl[c].names = {kind},
                 ctl'[c] = [ctl[c] EXCEPT !.names = ctl[c].names \ {kind}, !.seen = seen, !.phase = phase]
          PROVE  Goal
      <3>1. /\ ctl'[c].phase = phase /\ ctl'[c].seen = seen /\ ctl'[c].names = ctl[c].names \ {kind}
            /\ ctl[c].phase = "observing" /\ ctl[c].cleanup
        BY <2>0, <2>6 DEF ControllerState, ObserveCleanup
      <3>2. /\ Dead
            /\ ctl[c].seen # "unclean" => \A p \in pods : Writer(p) => p.kind \in ctl[c].names
        BY <3>1 DEF EvidenceInv, Reconciling
      <3>3. ASSUME seen = "clean", NEW p \in pods, Writer(p)
            PROVE  p.kind \in ctl[c].names \ {kind}
        BY <2>6, <3>2, <3>3 DEF PodsOf
      <3> QED BY <2>6, <3>1, <3>2, <3>3
    <2>7. CASE /\ ctl[c].phase = "observing" /\ ~ctl[c].cleanup
               /\ ctl'[c] = [ctl[c] EXCEPT !.phase = "creating"]
      <3>1. ~ctl'[c].cleanup
        BY <2>0, <2>7 DEF ControllerState
      <3> QED BY <1>2, <3>1
    <2>8. ASSUME ctl[c].phase \in {"observing", "creating"},
                 NEW seen \in Observations \ {"clean", "unclean"},
                 seen = "error" \/ ctl[c].phase = "creating" \/ ~ctl[c].cleanup,
                 ctl'[c] = [ctl[c] EXCEPT !.phase = "applying", !.seen = seen]
          PROVE  Goal
      <3>1. ctl'[c].phase = "applying" /\ ctl'[c].seen = seen /\ ctl'[c].cleanup = ctl[c].cleanup
        BY <2>0, <2>8 DEF ControllerState
      <3> QED BY <1>2, <2>8, <3>1 DEF EvidenceInv, Reconciling
    <2>9. Remembers(c)
      BY <1>0, AllRemember
    <2> QED BY <2>1, <2>2, <2>3, <2>4, <2>5, <2>6, <2>7, <2>8, <2>9 DEF Remembers
  <1> QED BY <1>1, <1>2 DEF EvidenceInv

LEMMA EvidenceHolds == Spec => []EvidenceInv
  <1>1. Init => EvidenceInv
    <2> SUFFICES ASSUME Init PROVE EvidenceInv
      OBVIOUS
    <2>1. ~run.cleaned /\ \A c \in Controllers : ~Reconciling(c)
      BY IdleMemory DEF Init, Reconciling
    <2> QED BY <2>1 DEF EvidenceInv
  <1> QED BY <1>1, FormCorrect, EvidenceNext, PTL DEF Spec

\* Absence of the Jobs and Pods of both phases is seen one name at a time, while
\* Pods, other workers and the mission move on; nobody begins to write again.
THEOREM CleanupCorrect == Spec => []CleanupCoversBothPhases
  <1>1. EvidenceInv => CleanupCoversBothPhases
    BY DEF EvidenceInv, CleanupCoversBothPhases, Writer
  <1> QED BY <1>1, EvidenceHolds, PTL

-----------------------------------------------------------------------------
(* The whole raster, and nothing else, is published. *)

\* What is recorded, aggregated and published belongs to the plan; what is
\* aggregated and published is all of it.
OfThePlan(content) == \A shard \in Shards : content[shard] # NoResult <=> shard \in PlanShards

PartsInv ==
    /\ \A shard \in Shards : receipts[shard] # NoResult => shard \in PlanShards
    /\ \A p \in pods : p.kind = "shards" => p.index \in PlanShards
    /\ \A p \in pods : p.phase = "aggregated" => OfThePlan(p.content)
    /\ Published => OfThePlan(artifact) /\ ~Refused

\* Every step keeps it so.
LEMMA PartsNext == FormInv /\ PartsInv /\ [Next]_vars => PartsInv'
  <1> SUFFICES ASSUME FormInv, PartsInv, [Next]_vars PROVE PartsInv'
    OBVIOUS
  <1>0. /\ receipts \in [Shards -> Results \cup {NoResult}] /\ pods \subseteq PodState
        /\ PlanShards' = PlanShards /\ Refused' = Refused
    BY OtherWriters DEF FormInv, TypeInv, FanOutTypeOK, PlanShards, Planned, Refused
  <1>1. ASSUME NEW shard \in Shards, receipts'[shard] # NoResult
        PROVE  shard \in PlanShards
    <2>1. ASSUME NEW p \in pods, RecordReceipt(p)
          PROVE  shard \in PlanShards
      <3>1. CASE receipts'[shard] = receipts[shard]
        BY <1>1, <3>1 DEF PartsInv
      <3>2. CASE receipts'[shard] # receipts[shard]
        BY <1>0, <2>1, <3>2 DEF RecordReceipt, PartsInv
      <3> QED BY <3>1, <3>2
    <2> QED BY <1>1, <2>1, OtherWriters DEF PartsInv
  <1>2. \A p \in pods' : \/ p \in pods
                         \/ \E kind \in Kinds, index \in Shards : p \notin pods /\ StartPod(kind, index)
                         \/ \E q \in pods : Moves(q, p)
    BY ClusterMoves DEF PodMoves, FormInv
  <1>3. ASSUME NEW p \in pods'
        PROVE  /\ p.kind = "shards" => p.index \in PlanShards
               /\ p.phase = "aggregated" => OfThePlan(p.content)
    <2>1. CASE p \in pods
      BY <2>1 DEF PartsInv
    <2>2. ASSUME NEW kind \in Kinds, NEW index \in Shards, p \notin pods, StartPod(kind, index)
          PROVE  p.phase = "starting" /\ (p.kind = "shards" => p.index \in PlanShards)
      <3>1. p = [kind |-> kind, index |-> index, incarnation |-> kjob[kind].incarnation,
                 phase |-> "starting", content |-> NoReceipts]
        BY <1>3, <2>2 DEF StartPod
      <3> QED BY <2>2, <3>1 DEF StartPod
    <2>3. ASSUME NEW q \in pods, Moves(q, p)
          PROVE  /\ p.kind = "shards" => p.index \in PlanShards
                 /\ p.phase = "aggregated" => OfThePlan(p.content)
      <3>1. p.kind = q.kind /\ p.index = q.index
        BY <1>0, <2>3 DEF Moves, PodState
      <3>2. ASSUME p.phase = "aggregated"
            PROVE  p.content = receipts /\ ReceiptsComplete
        BY <1>0, <2>3, <3>2 DEF Moves, PodState
      <3>3. p.phase = "aggregated" => OfThePlan(p.content)
        BY <3>2 DEF OfThePlan, ReceiptsComplete, PartsInv
      <3> QED BY <3>1, <3>3 DEF PartsInv
    <2> QED BY <1>2, <2>1, <2>2, <2>3
  <1>4. Published' => OfThePlan(artifact') /\ ~Refused
    <2>1. ASSUME NEW p \in pods, Publish(p)
          PROVE  Published' => OfThePlan(artifact') /\ ~Refused
      <3>1. CASE artifact' = artifact
        BY <3>1 DEF PartsInv, Published, NoReceipts
      <3>2. CASE artifact' = p.content /\ p.phase = "aggregated"
        <4>1. run.phase # "unplanned"
          BY <1>0 DEF FormInv, NameInv, Named, CleanupJobNames, CurrentJobName
        <4> QED BY <3>2, <4>1 DEF PartsInv, FormInv, TypeInv
      <3> QED BY <2>1, <3>1, <3>2 DEF Publish
    <2> QED BY <2>1, OtherWriters DEF PartsInv, Published, NoReceipts
  <1> QED BY <1>0, <1>1, <1>3, <1>4 DEF PartsInv, OfThePlan

\* No part of the raster is lost on the way from the plan through receipts of
\* several Pods, attempts and workers to the publication, and none comes twice.
THEOREM WholeRasterCorrect == Spec => []WholeRaster
  <1>1. Init => PartsInv
    BY DEF Init, PartsInv, Published, NoReceipts
  <1>2. FormInv /\ PartsInv => WholeRaster
    <2> SUFFICES ASSUME FormInv, PartsInv, run.phase = "unplanned" \/ Published
                 PROVE  WholeRaster
      BY DEF WholeRaster
    <2> DEFINE shards == IF Published THEN AggregatedShards ELSE PlanShards
               TilesOf(shard) == ShardTiles(raster, TilesPerShard, shard)
    <2>1. Plannable(raster) /\ TilesPerShard \in Nat \ {0}
      BY FanOutAssumption DEF FormInv, TypeInv, Plannable
    <2>2. shards = 0..ShardCount(raster, TilesPerShard) - 1
      <3>1. CASE ~Published
        BY <3>1 DEF PlanShards, Planned
      <3>2. CASE Published
        <4>1. PlanShards \subseteq Shards
          BY <3>2, PlanNumbers DEF PartsInv, FormInv
        <4>2. AggregatedShards = PlanShards
          BY <3>2, <4>1 DEF PartsInv, OfThePlan, AggregatedShards
        <4> QED BY <3>2, <4>2 DEF PlanShards, Planned
      <3> QED BY <3>1, <3>2
    <2>3. UNION {TilesOf(s) : s \in shards} = 0..TileCount(raster) - 1
      BY <2>1, <2>2, ShardsWhole
    <2>4. UNION {Pixels(Tile(raster, index)) : index \in UNION {TilesOf(s) : s \in shards}}
              = (0..raster.width - 1) \X (0..raster.height - 1)
      BY <2>1, <2>3, RasterCovered
    <2>5. \A s, t \in shards : s # t => TilesOf(s) \cap TilesOf(t) = {}
      BY <2>1, <2>2, ShardsDisjoint
    <2> QED BY <2>4, <2>5 DEF WholeRaster
  <1> QED BY <1>1, <1>2, FormCorrect, PartsNext, PTL DEF Spec

-----------------------------------------------------------------------------
(* The Pods fit in the envelope of the installation. *)

\* Nothing has happened that lets two reservations of a phase meet in one Job.
Calm == "lost_create" \notin accidents /\ ~ {"takeover", "request_error"} \subseteq accidents

\* A control worker that may create a Job of that name.
Holds(c, kind) == ctl[c].phase \in {"dispatching", "observing", "creating"} /\ ctl[c].kind = kind

\* The Pods that count for a Job.
OwnPods(kind) == {p \in PodsOf(kind) : p.incarnation = kjob[kind].incarnation}

\* Everybody means the same parallelism for a Job.
Parallel(kind, units) ==
    /\ kjob[kind].state # "absent" => kjob[kind].units = units
    /\ \A c \in Controllers : Holds(c, kind) => ctl[c].units = units
    /\ run.dispatched /\ run.jobName = kind => run.units = units
UnitsAgree == \A kind \in Kinds : \E units \in 0..Parallelism : Parallel(kind, units)

\* Nothing is left of a reservation that is given back, nor is there anything
\* of one not made yet.
NothingLeft ==
    ~run.dispatched =>
        kjob[NextKind].state = "absent" /\ \A c \in Controllers : ~Holds(c, NextKind)

\* A single worker dispatches a Job that is not there, and records an error
\* only after a failed request.
Alone ==
    \A c \in Controllers :
        /\ ctl[c].phase \in {"dispatching", "recording"} /\ "takeover" \notin accidents
             => ctl[c].kind = NextKind /\ kjob[ctl[c].kind].state = "absent"
        /\ ctl[c].phase = "recording" => "request_error" \in accidents

\* Only workers that were elected work, only the elected one without a takeover.
WorkInv ==
    /\ \A c \in Controllers : ctl[c].phase # "idle" => c \in working
    /\ "takeover" \notin accidents => working = {leader}

\* Pods are of the present Job or of an earlier one.
PodInv ==
    /\ \A p \in pods : p.incarnation <= kjob[p.kind].incarnation
    /\ \A kind \in Kinds : kjob[kind].state # "absent"
                             => Cardinality(OwnPods(kind)) <= kjob[kind].units

\* What the database counts is there, and a finalizer is one unit.
UnitsInv ==
    /\ others + UnitsHeld <= GlobalActive
    /\ run.dispatched /\ run.phase = "finalizer" => run.units = 1

EnvelopeInv ==
    WorkInv /\ PodInv /\ UnitsInv /\ (Calm => UnitsAgree /\ NothingLeft /\ Alone)

\* Every step keeps the workers within those elected.
LEMMA WorkNext == FormInv /\ WorkInv /\ [Next]_vars => WorkInv'
  <1> SUFFICES ASSUME FormInv, WorkInv, [Next]_vars PROVE WorkInv'
    OBVIOUS
  <1>0. ctl \in [Controllers -> ControllerState] /\ TypeInv /\ NameInv /\ leader \in working
    BY DEF FormInv, TypeInv, FanOutTypeOK
  <1>1. ASSUME NEW d \in Controllers, TakeOver(d)
        PROVE  ctl' = ctl /\ working \subseteq working' /\ "takeover" \in accidents'
    BY <1>1 DEF TakeOver, Accident
  <1>2. ASSUME NEW d \in Controllers, TickEnds(d)
        PROVE  /\ ctl' = ctl /\ working' = working \ {d} /\ ctl[d].phase = "idle"
               /\ d \in working \ {leader}
    BY <1>2 DEF TickEnds
  <1>3. \/ leader' = leader /\ working' = working
        \/ \E d \in Controllers : TakeOver(d) \/ TickEnds(d)
    BY OtherWriters
  <1>4. ASSUME NEW c \in Controllers, ctl'[c].phase # "idle"
        PROVE  c \in working'
    <2>1. CASE ctl' = ctl
      BY <1>1, <1>2, <1>3, <1>4, <2>1 DEF WorkInv
    <2>2. CASE working' = working
      <3>1. Remembers(c)
        BY <1>0, AllRemember
      <3>2. ctl[c].phase # "idle" \/ Reserve(c) \/ ReconcileClaim(c)
        BY <1>4, <3>1, IdleMemory DEF Remembers, ObserveCleanup
      <3> QED BY <1>0, <2>2, <3>2 DEF WorkInv, Reserve, ReconcileClaim
    <2> QED BY <1>1, <1>2, <1>3, <2>1, <2>2
  <1>5. "takeover" \notin accidents' => working' = {leader'}
    <2>1. "takeover" \notin accidents' => "takeover" \notin accidents
      BY OtherWriters
    <2> QED BY <1>1, <1>2, <1>3, <2>1 DEF WorkInv
  <1> QED BY <1>4, <1>5 DEF WorkInv

\* The incarnations of a Job follow each other.
LEMMA Incarnations ==
    ASSUME FormInv, [Next]_vars, NEW kind \in Kinds
    PROVE  /\ kjob[kind].incarnation \in Nat /\ kjob'[kind].incarnation \in Nat
           /\ kjob[kind].incarnation <= kjob'[kind].incarnation
  <1>0. kjob[kind] \in JobRow
    BY DEF FormInv, TypeInv
  <1>1. CASE \/ kjob'[kind] = kjob[kind] \/ kjob'[kind] = [kjob[kind] EXCEPT !.deleting = TRUE]
             \/ Gone(kind)
    BY <1>0, <1>1 DEF JobRow, Gone, NoJob
  <1>2. ASSUME NEW c \in Controllers, Made(c, kind)
        PROVE  kjob'[kind].incarnation = kjob[kind].incarnation + 1
    <2>1. kjob[kind].incarnation + 1 \in Nat /\ ctl[c].units \in 0..Parallelism
      BY <1>0 DEF JobRow, FormInv, TypeInv, FanOutTypeOK, ControllerState
    <2> QED BY <1>2, <2>1, MadeRow DEF Made
  <1>3. ASSUME NEW p \in pods, p.kind = kind, JobEnds(p)
        PROVE  kjob'[kind].incarnation = kjob[kind].incarnation
    BY <1>0, <1>3 DEF JobEnds, JobRow
  <1>4. JobMoves(kind)
    BY ClusterMoves DEF FormInv
  <1>5. kjob[kind].incarnation \in Nat
    BY <1>0 DEF JobRow
  <1> QED BY <1>0, <1>1, <1>2, <1>3, <1>4, <1>5 DEF JobMoves, JobRow

\* A Job that is there after a step was there before, or has just been created.
LEMMA JobBefore ==
    ASSUME FormInv, [Next]_vars, NEW kind \in Kinds, kjob'[kind].state # "absent"
    PROVE  \/ /\ kjob[kind].state # "absent" /\ kjob'[kind].units = kjob[kind].units
              /\ kjob'[kind].incarnation = kjob[kind].incarnation
           \/ /\ kjob'[kind].incarnation = kjob[kind].incarnation + 1 /\ pods' = pods
              /\ \E c \in Controllers : Made(c, kind) /\ kjob'[kind].units = ctl[c].units
  <1>0. kjob[kind] \in JobRow
    BY DEF FormInv, TypeInv
  <1>1. CASE kjob'[kind] = kjob[kind] \/ kjob'[kind] = [kjob[kind] EXCEPT !.deleting = TRUE]
    BY <1>0, <1>1 DEF JobRow
  <1>2. ASSUME NEW c \in Controllers, Made(c, kind)
        PROVE  /\ kjob'[kind].incarnation = kjob[kind].incarnation + 1 /\ pods' = pods
               /\ kjob'[kind].units = ctl[c].units
    <2>1. kjob[kind].incarnation + 1 \in Nat /\ ctl[c].units \in 0..Parallelism
      BY <1>0 DEF JobRow, FormInv, TypeInv, FanOutTypeOK, ControllerState
    <2> QED BY <1>2, <2>1, MadeRow DEF Made
  <1>3. ASSUME NEW p \in pods, p.kind = kind, JobEnds(p)
        PROVE  /\ kjob[kind].state # "absent" /\ kjob'[kind].units = kjob[kind].units
               /\ kjob'[kind].incarnation = kjob[kind].incarnation
    BY <1>0, <1>3 DEF JobEnds, JobRow, Owned
  <1>4. ~Gone(kind)
    BY DEF Gone, NoJob
  <1>5. JobMoves(kind)
    BY ClusterMoves DEF FormInv
  <1> QED BY <1>1, <1>2, <1>3, <1>4, <1>5 DEF JobMoves

\* One Pod more.
LEMMA AddOne ==
    ASSUME NEW S, NEW x, IsFiniteSet(S)
    PROVE  Cardinality(S \cup {x}) \in Nat /\ Cardinality(S \cup {x}) <= Cardinality(S) + 1
  <1>1. Cardinality(S) \in Nat
    BY FS_CardinalityType
  <1>2. Cardinality(S \cup {x}) = IF x \in S THEN Cardinality(S) ELSE Cardinality(S) + 1
    BY FS_AddElement
  <1> QED BY <1>1, <1>2

\* Every step keeps the Pods within their Job.
LEMMA PodNext == FormInv /\ PodInv /\ [Next]_vars => PodInv'
  <1> SUFFICES ASSUME FormInv, PodInv, [Next]_vars PROVE PodInv'
    OBVIOUS
  <1>0. /\ pods \subseteq PodState /\ IsFiniteSet(pods) /\ kjob \in [Kinds -> JobRow]
        /\ ctl \in [Controllers -> ControllerState]
    BY DEF FormInv, TypeInv, FanOutTypeOK
  <1>1. PodMoves
    BY ClusterMoves DEF FormInv
  <1>2. ASSUME NEW p \in pods'
        PROVE  p.incarnation <= kjob'[p.kind].incarnation
    <2>1. ASSUME NEW q \in pods, p.kind = q.kind, p.incarnation = q.incarnation
          PROVE  p.incarnation <= kjob'[p.kind].incarnation
      <3>1. q.kind \in Kinds /\ q.incarnation \in Nat /\ q.incarnation <= kjob[q.kind].incarnation
        BY <1>0 DEF PodState, PodInv
      <3> QED BY <2>1, <3>1, Incarnations
    <2>2. ASSUME NEW kind \in Kinds, NEW index \in Shards, StartPod(kind, index), p \notin pods
          PROVE  p.incarnation <= kjob'[p.kind].incarnation
      <3>1. p.kind = kind /\ p.incarnation = kjob[kind].incarnation
        BY <1>2, <2>2 DEF StartPod
      <3> QED BY <3>1, Incarnations
    <2>3. ASSUME NEW q \in pods, Moves(q, p)
          PROVE  p.kind = q.kind /\ p.incarnation = q.incarnation
      BY <1>0, <2>3 DEF Moves, PodState
    <2>4. \/ p \in pods
          \/ \E kind \in Kinds, index \in Shards : StartPod(kind, index)
          \/ \E q \in pods : Moves(q, p)
      BY <1>1, <1>2 DEF PodMoves
    <2> QED BY <2>1, <2>2, <2>3, <2>4
  <1>3. ASSUME NEW kind \in Kinds, kjob'[kind].state # "absent"
        PROVE  Cardinality(OwnPods(kind)') <= kjob'[kind].units
    <2>0. /\ IsFiniteSet(OwnPods(kind)) /\ Cardinality(OwnPods(kind)) \in Nat
          /\ kjob'[kind].units \in Nat /\ kjob[kind].incarnation \in Nat /\ kjob[kind].units \in Nat
      <3>1. OwnPods(kind) \in SUBSET pods
        BY DEF OwnPods, PodsOf
      <3>2. IsFiniteSet(OwnPods(kind)) /\ Cardinality(OwnPods(kind)) \in Nat
        BY <1>0, <3>1, FS_Subset, FS_CardinalityType
      <3>3. kjob'[kind].units \in Nat
        BY FormNext DEF FormInv, TypeInv, JobRow
      <3> QED BY <1>0, <3>2, <3>3 DEF JobRow
    <2>1. CASE kjob'[kind].incarnation = kjob[kind].incarnation + 1 /\ pods' = pods
      <3>1. OwnPods(kind)' = {}
        BY <1>0, <2>0, <2>1 DEF OwnPods, PodsOf, PodInv, PodState
      <3> QED BY <2>0, <3>1, FS_EmptySet
    <2>2. CASE /\ kjob[kind].state # "absent" /\ kjob'[kind].units = kjob[kind].units
               /\ kjob'[kind].incarnation = kjob[kind].incarnation
      <3>0. Cardinality(OwnPods(kind)) <= kjob[kind].units
        BY <2>2 DEF PodInv
      <3>1. CASE OwnPods(kind)' \subseteq OwnPods(kind)
        <4>1. OwnPods(kind)' \in SUBSET OwnPods(kind)
          BY <3>1
        <4>2. Cardinality(OwnPods(kind)') \in Nat /\ Cardinality(OwnPods(kind)') <= Cardinality(OwnPods(kind))
          BY <2>0, <4>1, FS_Subset, FS_CardinalityType
        <4> QED BY <2>0, <2>2, <3>0, <4>2
      <3>2. ASSUME NEW name \in Kinds, NEW index \in Shards, StartPod(name, index)
            PROVE  Cardinality(OwnPods(kind)') <= kjob'[kind].units
        <4> DEFINE pod == [kind |-> name, index |-> index, incarnation |-> kjob[name].incarnation,
                           phase |-> "starting", content |-> NoReceipts]
        <4>1. pods' = pods \cup {pod} /\ pod.kind = name
          BY <3>2 DEF StartPod
        <4>2. CASE name # kind
          <5>1. OwnPods(kind)' \subseteq OwnPods(kind)
            BY <2>2, <4>1, <4>2 DEF OwnPods, PodsOf
          <5> QED BY <3>1, <5>1
        <4>3. CASE name = kind
          <5>1. Cardinality(OwnPods(kind)) < kjob[kind].units
            BY <3>2, <4>3 DEF StartPod, OwnPods
          <5>2. OwnPods(kind)' = OwnPods(kind) \cup {pod}
            <6>1. pod.incarnation = kjob[name].incarnation
              OBVIOUS
            <6> HIDE DEF pod
            <6> QED BY <2>2, <4>1, <4>3, <6>1 DEF OwnPods, PodsOf
          <5> HIDE DEF pod
          <5>3. /\ Cardinality(OwnPods(kind)') <= Cardinality(OwnPods(kind)) + 1
                /\ Cardinality(OwnPods(kind)') \in Nat
            BY <2>0, <5>2, AddOne
          <5> QED BY <2>0, <2>2, <5>1, <5>3
        <4> QED BY <4>2, <4>3
      <3>3. ASSUME NEW q \in pods, NEW p, Moves(q, p), pods' = (pods \ {q}) \cup {p}
            PROVE  Cardinality(OwnPods(kind)') <= kjob'[kind].units
        <4>1. p.kind = q.kind /\ p.incarnation = q.incarnation
          BY <1>0, <3>3 DEF Moves, PodState
        <4>2. CASE q \notin OwnPods(kind)
          <5>1. OwnPods(kind)' \subseteq OwnPods(kind)
            BY <2>2, <3>3, <4>1, <4>2 DEF OwnPods, PodsOf
          <5> QED BY <3>1, <5>1
        <4>3. CASE q \in OwnPods(kind)
          <5>1. OwnPods(kind)' = (OwnPods(kind) \ {q}) \cup {p}
            BY <2>2, <3>3, <4>1, <4>3 DEF OwnPods, PodsOf
          <5>2. /\ IsFiniteSet(OwnPods(kind) \ {q})
                /\ Cardinality(OwnPods(kind) \ {q}) = Cardinality(OwnPods(kind)) - 1
            BY <2>0, <4>3, FS_RemoveElement
          <5>3. Cardinality(OwnPods(kind) \ {q}) \in Nat
            BY <5>2, FS_CardinalityType
          <5>4. /\ Cardinality(OwnPods(kind)') <= Cardinality(OwnPods(kind) \ {q}) + 1
                /\ Cardinality(OwnPods(kind)') \in Nat
            BY <5>1, <5>2, AddOne
          <5> QED BY <2>0, <2>2, <3>0, <5>2, <5>3, <5>4
        <4> QED BY <4>2, <4>3
      <3>4. CASE pods' \subseteq pods
        <4>1. OwnPods(kind)' \subseteq OwnPods(kind)
          BY <2>2, <3>4 DEF OwnPods, PodsOf
        <4> QED BY <3>1, <4>1
      <3> QED BY <1>1, <3>2, <3>3, <3>4 DEF PodMoves
    <2> QED BY <1>3, <2>1, <2>2, JobBefore
  <1> QED BY <1>2, <1>3 DEF PodInv

\* Every step keeps the units of the database within the envelope.
LEMMA UnitsNext == FormInv /\ UnitsInv /\ [Next]_vars => UnitsInv'
  <1> SUFFICES ASSUME FormInv, UnitsInv, [Next]_vars PROVE UnitsInv'
    OBVIOUS
  <1>0. /\ TypeInv /\ MemoryInv /\ NameInv /\ run \in RunRow /\ run' \in RunRow
        /\ others \in 0..GlobalActive /\ others' \in 0..GlobalActive /\ GlobalActive \in Nat \ {0}
    BY FormNext, FanOutAssumption DEF FormInv, TypeInv, FanOutTypeOK
  <1>b. others \in Int /\ GlobalActive \in Int
    BY <1>0
  <1>a. others \in Int /\ others' \in Int /\ others' <= GlobalActive /\ GlobalActive \in Int
    BY <1>0
  <1>1. run'.status \in ActiveStatuses => run.status \in ActiveStatuses
    BY <1>0, RunType
  <1>2. UnitsHeld \in Nat /\ run.units \in Nat /\ run'.units \in Nat
    BY <1>0 DEF UnitsHeld, RunRow
  <1>3. CASE /\ run'.phase = run.phase /\ run'.units = run.units
             /\ run'.dispatched => run.dispatched
    <2>1. UnitsHeld' \in {0, UnitsHeld}
      BY <1>1, <1>3 DEF UnitsHeld
    <2>2. PICK held \in Nat, after \in Nat, now \in Int :
             held = UnitsHeld /\ after = UnitsHeld' /\ now = others'
      BY <1>2, <1>a, <2>1
    <2>3. after <= held
      BY <2>1, <2>2
    <2>4. now + after <= GlobalActive
      <3>1. CASE ReserveOther
        <4>1. others + held < GlobalActive /\ now = others + 1
          BY <2>2, <3>1 DEF ReserveOther
        <4> QED BY <1>b, <2>3, <4>1
      <3>2. CASE ReleaseOther
        <4>1. others + held <= GlobalActive /\ now = others - 1
          BY <2>2, <3>2 DEF ReleaseOther, UnitsInv
        <4> QED BY <1>b, <2>3, <4>1
      <3>3. CASE others' = others
        <4>1. others + held <= GlobalActive /\ now = others
          BY <2>2, <3>3 DEF UnitsInv
        <4> QED BY <1>b, <2>3, <4>1
      <3> QED BY <3>1, <3>2, <3>3, OtherWriters
    <2>5. others' + UnitsHeld' <= GlobalActive
      BY <2>2, <2>4, Zenon
    <2> QED BY <1>3, <2>5 DEF UnitsInv
  <1>4. CASE /\ run'.phase = NextKind /\ ~Refused /\ run'.dispatched
             /\ run'.units = AtMost(RequestedUnits, GlobalActive - others)
             /\ \E c \in Controllers : Reserve(c)
    <2>1. others' = others /\ run'.units > 0
      BY <1>4 DEF Reserve
    <2>2. /\ RequestedUnits \in 0..Parallelism
          /\ run'.units <= RequestedUnits /\ run'.units <= GlobalActive - others
      BY <1>0, <1>4, Granted
    <2>3. NextKind = "finalizer" => RequestedUnits = 1
      BY DEF RequestedUnits
    <2>4. run'.phase = "finalizer" => run'.units = 1
      BY <1>2, <1>4, <2>1, <2>2, <2>3, FanOutAssumption
    <2>5. UnitsHeld' <= run'.units /\ UnitsHeld' \in Nat
      BY <1>2, <2>1 DEF UnitsHeld
    <2>6. others' + UnitsHeld' <= GlobalActive
      <3>1. PICK after \in Nat, units \in Nat : after = UnitsHeld' /\ units = run'.units
        BY <1>2, <2>5
      <3>2. after <= units /\ units <= GlobalActive - others
        BY <2>2, <2>5, <3>1
      <3>3. others + after <= GlobalActive
        BY <1>b, <3>2
      <3> QED BY <2>1, <3>1, <3>3, Zenon
    <2> QED BY <2>4, <2>6 DEF UnitsInv
  <1>5. CASE ~run'.dispatched
    <2>1. UnitsHeld' = 0
      BY <1>5 DEF UnitsHeld
    <2>2. others' + UnitsHeld' <= GlobalActive
      <3>1. PICK now \in Int : now = others' /\ now <= GlobalActive
        BY <1>a
      <3>2. now + 0 <= GlobalActive
        <4>1. now <= GlobalActive
          BY <3>1
        <4> QED BY <1>b, <4>1
      <3> QED BY <2>1, <3>1, <3>2, Zenon
    <2> QED BY <1>5, <2>2 DEF UnitsInv
  <1> QED BY <1>0, <1>3, <1>4, <1>5, AllNames DEF NameStep

\* It stays calm no longer than it was.
LEMMA CalmBefore ==
    ASSUME [Next]_vars, Calm'
    PROVE  Calm
  BY OtherWriters DEF Calm

\* While it is calm, a reservation is given back by a worker that is alone, and
\* whose Job is not there.
LEMMA GivenBack ==
    ASSUME FormInv, EnvelopeInv, Calm, NEW c \in Controllers, RecordDispatchError(c)
    PROVE  /\ kjob[NextKind].state = "absent" /\ UNCHANGED kjob
           /\ \A d \in Controllers : ctl'[d].phase = "idle"
  <1>0. ctl \in [Controllers -> ControllerState]
    BY DEF FormInv, TypeInv, FanOutTypeOK
  <1>1. ctl[c].phase = "recording" /\ ctl' = [ctl EXCEPT ![c] = Idle] /\ kjob' = kjob
    BY DEF RecordDispatchError, cluster
  <1>2. "takeover" \notin accidents
    BY <1>1 DEF EnvelopeInv, Alone, Calm
  <1>3. \A d \in Controllers : ctl[d].phase # "idle" => d = c
    BY <1>1, <1>2 DEF EnvelopeInv, WorkInv
  <1>4. kjob[NextKind].state = "absent"
    BY <1>1, <1>2 DEF EnvelopeInv, Alone
  <1> QED BY <1>0, <1>1, <1>3, <1>4, IdleMemory

\* Who may create a Job after a step: the reserver, the observer of what was
\* reserved, or whoever might before.
LEMMA HoldsBefore ==
    ASSUME FormInv, [Next]_vars, NEW c \in Controllers, NEW kind \in Kinds, Holds(c, kind)'
    PROVE  \/ Holds(c, kind) /\ ctl'[c].units = ctl[c].units
           \/ /\ Reserve(c) /\ ~Refused /\ kind = NextKind /\ ctl'[c].units = run'.units
           \/ ReconcileClaim(c) /\ run.jobName = kind /\ ctl'[c].units = run.units
  <1>0. ctl[c] \in ControllerState /\ TypeInv /\ NameInv
    BY DEF FormInv, TypeInv, FanOutTypeOK
  <1>1. CASE ctl'[c] = ctl[c]
    BY <1>1 DEF Holds
  <1>2. CASE ctl'[c] = Idle
    BY <1>2, IdleMemory DEF Holds
  <1>3. CASE /\ Reserve(c) /\ ~Refused /\ run'.units = AtMost(RequestedUnits, GlobalActive - others)
             /\ ctl'[c] = [Idle EXCEPT !.phase = "dispatching", !.kind = NextKind, !.units = run'.units]
    <2>1. ctl'[c].kind = NextKind /\ ctl'[c].units = run'.units
      BY <1>3 DEF Idle
    <2> QED BY <1>3, <2>1 DEF Holds
  <1>4. CASE ctl[c].phase = "dispatching" /\ ctl'[c] = [ctl[c] EXCEPT !.phase = "recording"]
    BY <1>0, <1>4 DEF Holds, ControllerState
  <1>5. CASE ReconcileClaim(c) /\ ctl'[c] = [Idle EXCEPT !.phase = "observing", !.kind = run.jobName,
                               !.units = run.units, !.status = run.status,
                               !.halted = halted, !.attempts = run.attempts,
                               !.cleanup = run.status \notin ActiveStatuses \/ halted,
                               !.names = IF run.status \notin ActiveStatuses \/ halted
                                         THEN CleanupJobNames ELSE {}]
    <2>1. ctl'[c].kind = run.jobName /\ ctl'[c].units = run.units
      BY <1>0, <1>5, ClaimMemory
    <2> QED BY <1>5, <2>1 DEF Holds
  <1>6. ASSUME ObserveCleanup(c),
               NEW name \in ctl[c].names, NEW seen \in {"clean", "unclean"},
               NEW phase \in {"observing", "applying"},
               ctl'[c] = [ctl[c] EXCEPT !.names = ctl[c].names \ {name}, !.seen = seen, !.phase = phase]
        PROVE  Holds(c, kind) /\ ctl'[c].units = ctl[c].units
    <2>1. ctl'[c].kind = ctl[c].kind /\ ctl'[c].units = ctl[c].units
      BY <1>0, <1>6 DEF ControllerState
    <2>2. ctl[c].phase = "observing"
      BY <1>6 DEF ObserveCleanup
    <2> QED BY <2>1, <2>2 DEF Holds
  <1>7. CASE /\ ctl[c].phase = "observing" /\ ~ctl[c].cleanup
             /\ ctl'[c] = [ctl[c] EXCEPT !.phase = "creating"]
    BY <1>0, <1>7 DEF Holds, ControllerState
  <1>8. ASSUME NEW seen \in Observations \ {"clean", "unclean"},
               ctl'[c] = [ctl[c] EXCEPT !.phase = "applying", !.seen = seen]
        PROVE  FALSE
    BY <1>0, <1>8 DEF Holds, ControllerState
  <1>9. Remembers(c)
    BY <1>0, AllRemember
  <1> QED BY <1>1, <1>2, <1>3, <1>4, <1>5, <1>6, <1>7, <1>8, <1>9 DEF Remembers

\* While it is calm, every step keeps one parallelism for a Job.
LEMMA AgreeNext == FormInv /\ EnvelopeInv /\ [Next]_vars /\ Calm' => UnitsAgree'
  <1> SUFFICES ASSUME FormInv, EnvelopeInv, [Next]_vars, Calm', NEW kind \in Kinds
               PROVE  \E units \in 0..Parallelism : Parallel(kind, units)'
    BY DEF UnitsAgree
  <1>0. /\ run \in RunRow /\ run' \in RunRow /\ ctl \in [Controllers -> ControllerState]
        /\ kjob \in [Kinds -> JobRow] /\ TypeInv /\ MemoryInv
    BY FormNext DEF FormInv, TypeInv, FanOutTypeOK
  <1>1. UnitsAgree /\ NothingLeft
    BY CalmBefore DEF EnvelopeInv
  <1>2. CASE (\E c \in Controllers : Reserve(c)) /\ ~Refused /\ kind = NextKind
    <2>1. PICK c \in Controllers : Reserve(c)
      BY <1>2
    <2>2. kjob[kind].state = "absent" /\ \A d \in Controllers : ~Holds(d, kind)
      BY <1>1, <1>2, <2>1 DEF NothingLeft, Reserve
    <2>3. kjob' = kjob /\ \A d \in Controllers \ {c} : ctl'[d] = ctl[d]
      BY <1>0, <1>2, <2>1 DEF Reserve, cluster
    <2>4. \A d \in Controllers : Holds(d, kind)' => ctl'[d].units = run'.units
      <3>1. ASSUME NEW d \in Controllers, Holds(d, kind)'
            PROVE  ctl'[d].units = run'.units
        <4>1. ~ReconcileClaim(d)
          BY <2>1 DEF ReconcileClaim, Reserve
        <4> QED BY <2>2, <3>1, <4>1, HoldsBefore
      <3> QED BY <3>1
    <2>5. run'.units \in 0..Parallelism
      BY <1>0 DEF RunRow
    <2> QED BY <2>2, <2>3, <2>4, <2>5 DEF Parallel
  <1>3. CASE ~((\E c \in Controllers : Reserve(c)) /\ ~Refused /\ kind = NextKind)
    <2>1. PICK units \in 0..Parallelism : Parallel(kind, units)
      BY <1>1 DEF UnitsAgree
    <2>2. ASSUME kjob'[kind].state # "absent"
          PROVE  kjob'[kind].units = units
      <3>1. ASSUME NEW c \in Controllers, Made(c, kind)
            PROVE  Holds(c, kind)
        BY <3>1 DEF Made, Holds
      <3> QED BY <2>1, <2>2, <3>1, JobBefore DEF Parallel
    <2>3. ASSUME NEW c \in Controllers, Holds(c, kind)'
          PROVE  ctl'[c].units = units
      BY <1>3, <2>1, <2>3, HoldsBefore DEF Parallel, ReconcileClaim
    <2>4. ASSUME run'.dispatched, run'.jobName = kind
          PROVE  run'.units = units
      <3>1. run.dispatched /\ run.jobName = kind /\ run'.units = run.units
        BY <1>0, <1>3, <2>4, AllNames DEF NameStep
      <3> QED BY <2>1, <3>1 DEF Parallel
    <2> QED BY <2>2, <2>3, <2>4 DEF Parallel
  <1> QED BY <1>2, <1>3

\* While it is calm, nothing is left when a reservation is over.
LEMMA LeftNext == FormInv /\ EnvelopeInv /\ [Next]_vars /\ Calm' => NothingLeft'
  <1> SUFFICES ASSUME FormInv, EnvelopeInv, [Next]_vars, Calm', ~run'.dispatched
               PROVE  \E kind \in Kinds : /\ kind = NextKind' /\ kjob'[kind].state = "absent"
                                          /\ \A c \in Controllers : ~Holds(c, kind)'
    BY DEF NothingLeft, Holds
  <1>0. /\ run \in RunRow /\ run' \in RunRow /\ TypeInv /\ MemoryInv /\ NextKind \in Kinds
    BY FormNext DEF FormInv, TypeInv, FanOutTypeOK, NextKind, Kinds
  <1>1. NothingLeft /\ Calm
    BY CalmBefore DEF EnvelopeInv
  <1>2. CASE run'.phase = run.phase /\ ~run.dispatched
    <2>1. PICK kind \in Kinds : kind = NextKind
      BY <1>0
    <2>2. kjob[kind].state = "absent" /\ \A c \in Controllers : ~Holds(c, kind)
      BY <1>1, <1>2, <2>1 DEF NothingLeft
    <2>3. ASSUME kjob'[kind].state # "absent"
          PROVE  FALSE
      BY <2>2, <2>3, JobBefore DEF Made, Holds
    <2>4. ASSUME NEW c \in Controllers, Holds(c, kind)'
          PROVE  FALSE
      <3>1. ~ReconcileClaim(c)
        BY <1>2 DEF ReconcileClaim
      <3>2. ASSUME Reserve(c), ~Refused
            PROVE  run'.dispatched
        <4>1. PICK granted : run' = [run EXCEPT !.phase = NextKind, !.dispatched = TRUE, !.jobName = NextKind,
                                                !.units = granted, !.attempts = @ + 1]
          BY <3>2 DEF Reserve
        <4> QED BY <1>0, <4>1 DEF RunRow
      <3> QED BY <2>2, <2>4, <3>1, <3>2, HoldsBefore
    <2>5. kind = NextKind'
      BY <1>2, <2>1 DEF NextKind
    <2> QED BY <2>3, <2>4, <2>5
  <1>3. ASSUME run'.phase = run.phase, NEW c \in Controllers, RecordDispatchError(c)
        PROVE  \E kind \in Kinds : /\ kind = NextKind' /\ kjob'[kind].state = "absent"
                                   /\ \A d \in Controllers : ~Holds(d, kind)'
    <2>1. PICK kind \in Kinds : kind = NextKind
      BY <1>0
    <2>2. kjob'[kind].state = "absent" /\ \A d \in Controllers : ctl'[d].phase = "idle"
      BY <1>1, <1>3, <2>1, GivenBack
    <2>3. kind = NextKind'
      BY <1>3, <2>1 DEF NextKind
    <2> QED BY <2>2, <2>3 DEF Holds
  <1>4. CASE run'.phase = "finalizer" /\ run'.jobName = "none"
    <2>1. NameInv' /\ NextKind' = "finalizer" /\ CleanupJobNames' \subseteq {"shards"}
      BY <1>4, FormNext DEF FormInv, NextKind, CleanupJobNames, CurrentJobName
    <2>2. "finalizer" \in Kinds /\ "finalizer" # "shards"
      BY DEF Kinds
    <2>3. kjob'["finalizer"].state = "absent"
      BY <2>1, <2>2 DEF NameInv
    <2>4. \A c \in Controllers : ctl'[c].phase = "idle" \/ ctl'[c].kind # "finalizer"
      BY <2>1, <2>2 DEF NameInv
    <2>5. \A c \in Controllers : ~Holds(c, "finalizer")'
      BY <2>4 DEF Holds
    <2> QED BY <2>1, <2>2, <2>3, <2>5
  <1> QED BY <1>0, <1>2, <1>3, <1>4, AllNames DEF NameStep

\* While it is calm, a worker records an error only alone, of a failed request.
LEMMA AloneNext == FormInv /\ EnvelopeInv /\ [Next]_vars /\ Calm' => Alone'
  <1> SUFFICES ASSUME FormInv, EnvelopeInv, [Next]_vars, Calm', NEW c \in Controllers
               PROVE  /\ ctl'[c].phase \in {"dispatching", "recording"} /\ "takeover" \notin accidents'
                           => ctl'[c].kind = NextKind' /\ kjob'[ctl'[c].kind].state = "absent"
                      /\ ctl'[c].phase = "recording" => "request_error" \in accidents'
    BY DEF Alone
  <1>0. /\ run \in RunRow /\ TypeInv /\ NameInv /\ MemoryInv /\ NextKind \in Kinds
        /\ ctl \in [Controllers -> ControllerState] /\ ctl[c] \in ControllerState
        /\ accidents \subseteq accidents'
    BY OtherWriters DEF FormInv, TypeInv, FanOutTypeOK, NextKind, Kinds
  <1>1. UnitsAgree /\ NothingLeft /\ Alone /\ WorkInv /\ Calm
    BY CalmBefore DEF EnvelopeInv
  <1>2. ASSUME ctl'[c].phase \in {"dispatching", "recording"}
        PROVE  \/ ctl'[c] = ctl[c]
               \/ Reserve(c) /\ ~Refused /\ ctl'[c].phase = "dispatching" /\ ctl'[c].kind = NextKind
               \/ /\ ctl[c].phase = "dispatching" /\ ctl'[c].kind = ctl[c].kind
                  /\ Conflicting(ctl[c].kind, ctl[c].units) \/ "request_error" \in accidents'
    <2>0. Remembers(c)
      BY <1>0, AllRemember
    <2>1. CASE /\ Reserve(c) /\ ~Refused
               /\ ctl'[c] = [Idle EXCEPT !.phase = "dispatching", !.kind = NextKind, !.units = run'.units]
      BY <2>1 DEF Idle
    <2>2. CASE /\ ctl[c].phase = "dispatching" /\ ctl'[c] = [ctl[c] EXCEPT !.phase = "recording"]
               /\ Conflicting(ctl[c].kind, ctl[c].units) \/ {"request_error", "lost_create"} \cap accidents' # {}
      <3>1. ctl'[c].kind = ctl[c].kind
        BY <1>0, <2>2 DEF ControllerState
      <3> QED BY <2>2, <3>1 DEF Calm
    <2>3. CASE ReconcileClaim(c) /\ ctl'[c] = [Idle EXCEPT !.phase = "observing", !.kind = run.jobName,
                               !.units = run.units, !.status = run.status,
                               !.halted = halted, !.attempts = run.attempts,
                               !.cleanup = run.status \notin ActiveStatuses \/ halted,
                               !.names = IF run.status \notin ActiveStatuses \/ halted
                                         THEN CleanupJobNames ELSE {}]
      <3>1. ctl'[c].phase = "observing"
        BY <1>0, <2>3, ClaimMemory
      <3> QED BY <1>2, <3>1
    <2>4. ASSUME NEW name \in ctl[c].names, NEW seen \in {"clean", "unclean"},
                 NEW phase \in {"observing", "applying"},
                 ctl'[c] = [ctl[c] EXCEPT !.names = ctl[c].names \ {name}, !.seen = seen, !.phase = phase]
          PROVE  FALSE
      BY <1>0, <1>2, <2>4 DEF ControllerState
    <2>5. CASE ctl'[c] = [ctl[c] EXCEPT !.phase = "creating"]
      BY <1>0, <1>2, <2>5 DEF ControllerState
    <2>6. ASSUME NEW seen \in Observations \ {"clean", "unclean"},
                 ctl'[c] = [ctl[c] EXCEPT !.phase = "applying", !.seen = seen]
          PROVE  FALSE
      BY <1>0, <1>2, <2>6 DEF ControllerState
    <2>7. CASE ctl'[c] = Idle
      BY <1>2, <2>7, IdleMemory
    <2> QED BY <2>0, <2>1, <2>2, <2>3, <2>4, <2>5, <2>6, <2>7 DEF Remembers
  <1>3. ASSUME ctl[c].phase = "dispatching"
        PROVE  ~Conflicting(ctl[c].kind, ctl[c].units)
    <2>1. ctl[c].kind \in Kinds
      BY <1>0, <1>3, KnownNames DEF NameInv
    <2>2. Holds(c, ctl[c].kind)
      BY <1>3 DEF Holds
    <2> QED BY <1>1, <2>1, <2>2 DEF UnitsAgree, Parallel, Conflicting
  <1>4. ctl'[c].phase = "recording" => "request_error" \in accidents'
    BY <1>0, <1>1, <1>2, <1>3 DEF Alone
  <1>5. ASSUME ctl'[c].phase \in {"dispatching", "recording"}, "takeover" \notin accidents'
        PROVE  ctl'[c].kind = NextKind' /\ kjob'[ctl'[c].kind].state = "absent"
    <2>0. "takeover" \notin accidents /\ working = {leader}
      BY <1>0, <1>1, <1>5 DEF WorkInv
    <2>1. CASE Reserve(c) /\ ~Refused /\ ctl'[c].kind = NextKind
      <3>1. kjob' = kjob /\ ~run.dispatched
        BY <2>1 DEF Reserve, cluster
      <3>2. kjob'[NextKind].state = "absent"
        BY <1>1, <3>1 DEF NothingLeft
      <3>3. PICK granted : run' = [run EXCEPT !.phase = NextKind, !.dispatched = TRUE, !.jobName = NextKind,
                                              !.units = granted, !.attempts = @ + 1]
        BY <2>1 DEF Reserve
      <3>4. run'.phase = NextKind
        BY <1>0, <3>3 DEF RunRow
      <3> QED BY <2>1, <3>2, <3>4 DEF NextKind
    <2>2. CASE ctl[c].phase \in {"dispatching", "recording"} /\ ctl'[c].kind = ctl[c].kind
      <3>1. ctl[c].kind = NextKind /\ kjob[NextKind].state = "absent"
        BY <1>1, <2>0, <2>2 DEF Alone
      <3>2. \A d \in Controllers : ctl[d].phase # "idle" => d = c
        BY <1>1, <2>0, <2>2 DEF WorkInv
      <3>3. NextKind' = NextKind
        <4>1. ~ \E d \in Controllers : ctl[d].phase = "applying"
          BY <2>2, <3>2
        <4>2. run'.phase = run.phase \/ run'.phase = NextKind
          BY <1>0, <4>1, AllNames DEF NameStep
        <4> QED BY <4>2 DEF NextKind
      <3>4. ASSUME kjob'[NextKind].state # "absent"
            PROVE  FALSE
        <4>1. PICK d \in Controllers : Made(d, NextKind)
          BY <1>0, <3>1, <3>4, JobBefore
        <4>2. d = c
          BY <3>2, <4>1 DEF Made
        <4> QED BY <1>5, <4>1, <4>2 DEF Made, Calm
      <3> QED BY <2>2, <3>1, <3>3, <3>4
    <2> QED BY <1>2, <1>5, <2>1, <2>2
  <1> QED BY <1>4, <1>5

LEMMA EnvelopeHolds == Spec => []EnvelopeInv
  <1>1. Init => EnvelopeInv
    <2> SUFFICES ASSUME Init PROVE EnvelopeInv
      OBVIOUS
    <2>0. GlobalActive \in Nat \ {0} /\ Parallelism \in Nat \ {0}
      BY FanOutAssumption
    <2>1. /\ ~run.dispatched /\ others = 0 /\ pods = {} /\ working = {leader}
          /\ \A c \in Controllers : ctl[c].phase = "idle"
          /\ \A kind \in Kinds : kjob[kind].state = "absent"
      BY IdleMemory, NoJobRow DEF Init
    <2>2. NextKind \in Kinds
      BY DEF NextKind, Kinds
    <2>3. UnitsHeld = 0
      BY <2>1 DEF UnitsHeld
    <2>4. WorkInv /\ PodInv /\ UnitsInv
      BY <2>0, <2>1, <2>3 DEF WorkInv, PodInv, UnitsInv
    <2>5. UnitsAgree
      BY <2>0, <2>1 DEF UnitsAgree, Parallel, Holds
    <2>6. NothingLeft /\ Alone
      BY <2>1, <2>2 DEF NothingLeft, Alone, Holds
    <2> QED BY <2>4, <2>5, <2>6 DEF EnvelopeInv
  <1>2. FormInv /\ EnvelopeInv /\ [Next]_vars => EnvelopeInv'
    BY WorkNext, PodNext, UnitsNext, AgreeNext, LeftNext, AloneNext DEF EnvelopeInv
  <1> QED BY <1>1, <1>2, FormCorrect, PTL DEF Spec

\* Whoever reserves, dispatches and recreates, and whatever the other runs take
\* and give back: there is room for every Pod that a Job may run.
THEOREM EnvelopeCorrect == Spec => []PodsWithinEnvelope
  <1>1. FormInv /\ EnvelopeInv => PodsWithinEnvelope
    <2> SUFFICES ASSUME FormInv, EnvelopeInv, run.dispatched, run.status \in ActiveStatuses, Calm
                 PROVE  others + Cardinality({p \in PodsOf(run.jobName) : Owned(p)}) <= GlobalActive
      BY DEF PodsWithinEnvelope, Calm
    <2> DEFINE own == {p \in PodsOf(run.jobName) : Owned(p)}
    <2>0. /\ others \in Nat /\ GlobalActive \in Nat /\ UnitsHeld \in Nat /\ run.units \in Nat
          /\ others + UnitsHeld <= GlobalActive
          /\ pods \subseteq PodState /\ IsFiniteSet(pods)
          /\ run.jobName \in Kinds \cup {"none"} /\ run.phase \in Kinds \cup {"unplanned"}
      BY FanOutAssumption DEF FormInv, TypeInv, FanOutTypeOK, RunRow, UnitsHeld, EnvelopeInv, UnitsInv
    <2>1. CASE own = {}
      <3>1. Cardinality(own) = 0
        BY <2>1, FS_EmptySet
      <3> QED BY <2>0, <3>1
    <2>2. CASE own # {}
      <3>1. run.jobName \in Kinds /\ kjob[run.jobName].state = "active"
        BY <2>0, <2>2 DEF PodsOf, PodState, Owned
      <3>2. own \in SUBSET OwnPods(run.jobName) /\ OwnPods(run.jobName) \in SUBSET pods
        BY DEF OwnPods, PodsOf, Owned
      <3>3. IsFiniteSet(OwnPods(run.jobName))
        BY <2>0, <3>2, FS_Subset
      <3>4. /\ Cardinality(own) <= Cardinality(OwnPods(run.jobName))
            /\ Cardinality(own) \in Nat /\ Cardinality(OwnPods(run.jobName)) \in Nat
        <4> HIDE DEF own
        <4> QED BY <3>2, <3>3, FS_Subset, FS_CardinalityType
      <3>5. Cardinality(OwnPods(run.jobName)) <= kjob[run.jobName].units
        BY <3>1 DEF EnvelopeInv, PodInv
      <3>6. kjob[run.jobName].units = run.units
        BY <3>1 DEF EnvelopeInv, UnitsAgree, Parallel
      <3>7. run.units = UnitsHeld
        BY <2>0, <3>1 DEF UnitsHeld, EnvelopeInv, UnitsInv, FormInv, NameInv, Named, Kinds
      <3>8. others + run.units <= GlobalActive
        BY <2>0, <3>7
      <3>a. others \in Nat /\ GlobalActive \in Nat /\ run.units \in Nat
        BY <2>0
      <3>9. Cardinality(own) <= run.units
        <4> HIDE DEF own
        <4> QED BY <2>0, <3>4, <3>5, <3>6
      <3>b. PICK size \in Nat : size = Cardinality(own)
        BY <3>4
      <3>c. others + size <= GlobalActive
        <4>1. size <= run.units
          BY <3>9, <3>b
        <4> QED BY <3>a, <3>8, <4>1
      <3> QED BY <3>b, <3>c, Zenon
    <2> QED BY <2>1, <2>2
  <1> QED BY <1>1, FormCorrect, EnvelopeHolds, PTL

-----------------------------------------------------------------------------
(* Failures have a cause. *)

\* Nothing but the accidents of control workers has happened.
Quiet == accidents \subseteq {"crash", "takeover", "overrun"}

\* A run that goes on in a quiet installation. While it does, the following
\* order is kept.
Live == ~Dead /\ Quiet /\ ~Refused

\* A Job is created once, and it does not fail.
JobsSound ==
    \A kind \in Kinds :
        /\ ~kjob[kind].deleting /\ kjob[kind].state # "failed"
        /\ kjob[kind].state = "absent" => kjob[kind].incarnation = 0 /\ kjob[kind].done = {}
        /\ kjob[kind].state # "absent" => kjob[kind].incarnation = 1

Indexes(kind) == IF kind = "shards" THEN PlanShards ELSE {0}

\* A Pod is of the Job of the present phase and works on what is not done.
PodSound(p) ==
    /\ p.kind = run.phase /\ p.incarnation = 1 /\ kjob[p.kind].state = "active"
    /\ p.index \in Indexes(p.kind) \ kjob[p.kind].done
    /\ p.phase # "failing" /\ (p.phase # "starting" => run.status = "running")
    /\ p.phase = "aggregated" => p.kind = "finalizer"
    /\ p.phase = "recorded" => p.kind = "shards" /\ receipts[p.index] # NoResult

PodsSound ==
    /\ \A p \in pods : PodSound(p)
    /\ \A p, q \in pods : p.index = q.index => p = q

\* What is done of the shards has its receipts; the finalizer of a run that goes
\* on has not ended.
DoneSound ==
    /\ \A shard \in kjob["shards"].done : receipts[shard] # NoResult
    /\ kjob["shards"].state = "complete" => kjob["shards"].done = PlanShards
    /\ kjob["finalizer"].state # "complete" /\ kjob["finalizer"].done = {}
    /\ run.phase = "shards" /\ kjob["shards"].done # {} => run.status = "running"

\* Where the row says the run is, its Jobs are.
PhaseSound ==
    /\ run.phase = "unplanned" => ~run.dispatched /\ kjob["shards"].state = "absent"
    /\ run.phase = "shards" => run.dispatched
    /\ run.phase = "finalizer" => kjob["shards"].state = "complete"
    /\ run.phase # "finalizer" \/ ~run.dispatched => kjob["finalizer"].state = "absent"
    /\ run.dispatched => run.jobName = run.phase
    /\ ~run.dispatched => run.status = "queued" /\ run.jobName = "none" /\ run.token = NoController

\* A phase uses up two attempts at most: a reservation, and one Job found missing
\* because its reserver died before it made it.
AttemptsSound ==
    /\ ~run.dispatched => run.attempts = 0
    /\ run.dispatched => run.attempts \in {1, 2}
    /\ run.dispatched /\ run.attempts = 2 => kjob[run.phase].state # "absent"

Order == JobsSound /\ PodsSound /\ DoneSound /\ PhaseSound /\ AttemptsSound

\* Nobody is about to create a Job of a phase that has not begun.
MaySend(c) ==
    ctl[c].phase \in {"dispatching", "observing", "creating"} =>
        /\ run.phase # "unplanned"
        /\ ctl[c].kind = "finalizer" => run.phase = "finalizer" /\ run.dispatched

\* The holder of the token remembers the row as it is, and what it has seen is
\* still so.
MayApply(c) ==
    run.token = c /\ Reconciling(c) =>
        /\ run.dispatched /\ ctl[c].kind = run.jobName /\ ctl[c].attempts = run.attempts
        /\ ctl[c].phase = "creating" \/ ctl[c].seen = "missing" => run.attempts = 1
        /\ ctl[c].seen \notin {"missing_error", "failed"}
        /\ ctl[c].seen = "missing" => kjob[ctl[c].kind].state # "absent"
        /\ ctl[c].seen = "complete" => kjob[ctl[c].kind].state = "complete"

Workers == \A c \in Controllers : MaySend(c) /\ MayApply(c)

\* The run has not failed, only a cancelled mission cancels it, no request has
\* failed, and nothing is left to fail behind a success.
Uneventful ==
    /\ run.status # "failed" /\ (run.status = "cancelled" => halted)
    /\ \A c \in Controllers : ctl[c].phase # "recording" /\ ctl[c].seen # "error"
    /\ run.status = "succeeded" /\ ~halted => \A p \in pods : p.phase \in {"starting", "recorded"}

CauseInv ==
    /\ Quiet /\ ~Refused => Uneventful
    /\ Live => Order /\ Workers

\* Accidents are remembered, so it was quiet before.
LEMMA QuietBefore ==
    ASSUME FormInv, [Next]_vars, Quiet'
    PROVE  Quiet /\ Refused' = Refused /\ Planned' = Planned /\ PlanShards' = PlanShards
  BY OtherWriters DEF Quiet, Refused, Planned, PlanShards

LEMMA NoAccident ==
    ASSUME Quiet', NEW kind, Accident(kind)
    PROVE  kind \in {"crash", "takeover", "overrun"}
  BY DEF Quiet, Accident

LEMMA LiveBefore ==
    ASSUME FormInv, [Next]_vars, Live'
    PROVE  Live /\ ~halted /\ ~halted' /\ run.status \in ActiveStatuses /\ run'.status \in ActiveStatuses
  BY QuietBefore, DeadForGood DEF Live, Dead

\* What everybody may cite of the types.
LEMMA Kept ==
    ASSUME FormInv
    PROVE  /\ run \in RunRow /\ ctl \in [Controllers -> ControllerState] /\ kjob \in [Kinds -> JobRow]
           /\ pods \subseteq PodState /\ receipts \in [Shards -> Results \cup {NoResult}]
           /\ NoController \notin Controllers /\ NoResult \notin Results
  BY FanOutAssumption DEF FormInv, TypeInv, FanOutTypeOK

\* While it is quiet no creation meets a Job with another parallelism.
LEMMA NoConflict ==
    ASSUME FormInv, EnvelopeInv, Quiet, NEW c \in Controllers,
           ctl[c].phase \in {"dispatching", "creating"}
    PROVE  ctl[c].kind \in Kinds /\ ~Conflicting(ctl[c].kind, ctl[c].units)
  <1>1. Calm
    BY DEF Calm, Quiet
  <1>2. ctl[c].kind \in Kinds
    BY KnownNames DEF FormInv, NameInv
  <1>3. Holds(c, ctl[c].kind)
    BY DEF Holds
  <1> QED BY <1>1, <1>2, <1>3 DEF EnvelopeInv, UnitsAgree, Parallel, Conflicting

\* Steps that leave the run and the cluster alone.
Beside ==
    /\ UNCHANGED <<receipts, run, kjob, pods>>
    /\ \A c \in Controllers : ctl'[c] \in {ctl[c], Idle}

\* The steps of a run that goes on.
GoesOn ==
    \/ Beside \/ LeaseExpires
    \/ \E c \in Controllers : Reserve(c) \/ Dispatch(c) \/ ReconcileClaim(c) \/ ObserveJob(c)
                              \/ RecreateJob(c) \/ ReconcileApply(c)
    \/ \E p \in pods : LoadContext(p) \/ RecordReceipt(p) \/ Aggregate(p) \/ PodSucceeds(p)
    \/ \E kind \in Kinds, index \in Shards : StartPod(kind, index)

\* There are no others.
LEMMA LiveSteps ==
    ASSUME FormInv, EvidenceInv, CauseInv, [Next]_vars, Live'
    PROVE  GoesOn
  <1>0. /\ Live /\ Order /\ Workers /\ Uneventful /\ ~Dead /\ Quiet' /\ ~halted /\ ~halted'
        /\ run'.status \in ActiveStatuses
    BY LiveBefore DEF CauseInv, Live
  <1>t. run \in RunRow /\ ctl \in [Controllers -> ControllerState] /\ kjob \in [Kinds -> JobRow]
    BY Kept
  <1>beside. ASSUME UNCHANGED <<database, cluster>>, \A c \in Controllers : ctl'[c] \in {ctl[c], Idle}
             PROVE  GoesOn
    BY <1>beside DEF GoesOn, Beside, database, cluster
  <1>1. ASSUME NEW c \in Controllers, ControllerStep(c)
        PROVE  GoesOn
    <2>1. CASE Reserve(c) \/ Dispatch(c) \/ ReconcileClaim(c) \/ ObserveJob(c) \/ RecreateJob(c)
               \/ ReconcileApply(c)
      BY <2>1 DEF GoesOn
    <2>2. CASE DispatchFails(c) \/ ObserveFails(c) \/ RecreateJobFails(c)
      <3>1. Accident("request_error") \/ Accident("lost_create")
        BY <2>2 DEF DispatchFails, ObserveFails, RecreateJobFails
      <3> QED BY <1>0, <3>1, NoAccident
    <2>3. CASE RecordDispatchError(c)
      BY <1>0, <2>3 DEF RecordDispatchError, Uneventful
    <2>4. CASE ObserveCleanup(c)
      BY <1>0, <2>4 DEF ObserveCleanup, EvidenceInv, Reconciling
    <2>5. CASE TakeOver(c) \/ TickEnds(c)
      BY <1>beside, <2>5 DEF TakeOver, TickEnds
    <2>6. CASE ControllerCrash(c)
      BY <1>t, <1>beside, <2>6 DEF ControllerCrash
    <2> QED BY <1>1, <2>1, <2>2, <2>3, <2>4, <2>5, <2>6 DEF ControllerStep
  <1>2. ASSUME NEW p \in pods, PodStep(p)
        PROVE  GoesOn
    <2>0. PodSound(p) /\ ~kjob[p.kind].deleting /\ p.kind \in Kinds
      BY <1>0, Kept DEF Order, PodsSound, JobsSound, PodState
    <2>1. CASE LoadContext(p) \/ RecordReceipt(p) \/ Aggregate(p) \/ PodSucceeds(p)
      BY <2>1 DEF GoesOn
    <2>2. CASE StopsWhenCancelled(p) \/ LateHeartbeat(p)
      <3>1. run'.status = "cancelled"
        BY <1>t, <2>2 DEF StopsWhenCancelled, LateHeartbeat, RunRow
      <3> QED BY <1>0, <3>1 DEF ActiveStatuses
    <2>3. CASE Publish(p)
      <3>1. p.phase = "aggregated" /\ run.status = "running"
        BY <2>0, <2>3 DEF Publish, PodSound
      <3>2. run'.status = "succeeded"
        BY <1>t, <2>3, <3>1 DEF Publish, RunRow
      <3> QED BY <1>0, <3>2 DEF ActiveStatuses
    <2>4. CASE HandlerRaises(p) \/ PodKilled(p)
      <3>1. Accident("pod_error") \/ Accident("pod_killed")
        BY <2>4 DEF HandlerRaises, PodKilled
      <3> QED BY <1>0, <3>1, NoAccident
    <2>5. CASE MarkFailed(p)
      BY <2>0, <2>5 DEF MarkFailed, PodSound
    <2>6. CASE PodTerminated(p)
      <3>1. kjob[p.kind].incarnation = 1
        BY <1>0, <2>0 DEF Order, JobsSound, PodSound
      <3> QED BY <2>0, <2>6, <3>1 DEF PodTerminated, Owned, PodSound
    <2> QED BY <1>2, <2>1, <2>2, <2>3, <2>4, <2>5, <2>6 DEF PodStep
  <1>3. ASSUME NEW kind \in Kinds, ClusterStep(kind)
        PROVE  GoesOn
    <2>1. CASE \E index \in Shards : StartPod(kind, index)
      BY <2>1 DEF GoesOn
    <2>2. CASE JobRemoved(kind)
      BY <1>0, <2>2 DEF JobRemoved, Order, JobsSound
    <2>3. CASE JobVanishes(kind)
      BY <1>0, <2>3, NoAccident DEF JobVanishes
    <2> QED BY <1>3, <2>1, <2>2, <2>3 DEF ClusterStep
  <1>4. CASE ReserveOther \/ ReleaseOther
    BY <1>4 DEF ReserveOther, ReleaseOther, GoesOn, Beside, control, cluster
  <1>5. CASE CancelMission
    BY <1>0, <1>5 DEF CancelMission
  <1>6. CASE UNCHANGED vars
    BY <1>beside, <1>6 DEF vars, control
  <1>7. CASE LeaseExpires
    BY <1>7 DEF GoesOn
  <1> QED BY <1>1, <1>2, <1>3, <1>4, <1>5, <1>6, <1>7 DEF Next

\* Steps that change neither the cluster nor the phase keep the order.
LEMMA OrderKept ==
    ASSUME Order, PlanShards' = PlanShards, UNCHANGED <<receipts, kjob, pods>>,
           run'.phase = run.phase, run'.dispatched = run.dispatched, run'.jobName = run.jobName,
           \/ run'.attempts = run.attempts
           \/ run.dispatched /\ run'.attempts \in {1, 2} /\ kjob[run.phase].state # "absent",
           run'.status = run.status \/ (run.dispatched /\ run'.status = "running"),
           run.dispatched \/ run'.token \in {run.token, NoController}
    PROVE  Order'
  <1>1. JobsSound'
    BY DEF Order, JobsSound
  <1>2. PodsSound'
    <2>1. ASSUME NEW p \in pods
          PROVE  PodSound(p)'
      BY DEF Order, PodsSound, PodSound, Indexes
    <2> QED BY <2>1 DEF Order, PodsSound
  <1>3. DoneSound'
    BY DEF Order, DoneSound
  <1>4. PhaseSound'
    BY DEF Order, PhaseSound
  <1>5. AttemptsSound'
    BY DEF Order, AttemptsSound
  <1> QED BY <1>1, <1>2, <1>3, <1>4, <1>5 DEF Order

LEMMA OrderSame ==
    ASSUME Order, PlanShards' = PlanShards, UNCHANGED <<receipts, run, kjob, pods>>
    PROVE  Order'
  <1>1. ASSUME NEW p \in pods
        PROVE  PodSound(p)'
    BY DEF Order, PodsSound, PodSound, Indexes
  <1>2. PodsSound'
    BY <1>1 DEF Order, PodsSound
  <1> QED BY <1>2 DEF Order, JobsSound, DoneSound, PhaseSound, AttemptsSound

\* What a reservation writes.
LEMMA ReservedRow ==
    ASSUME FormInv, ~Refused, NEW c \in Controllers, Reserve(c)
    PROVE  /\ run'.phase = NextKind /\ run'.dispatched /\ run'.jobName = NextKind
           /\ run'.attempts = run.attempts + 1 /\ run'.status = run.status /\ run'.token = run.token
  <1>1. PICK granted : run' = [run EXCEPT !.phase = NextKind, !.dispatched = TRUE, !.jobName = NextKind,
                                          !.units = granted, !.attempts = @ + 1]
    BY DEF Reserve
  <1> QED BY <1>1, Kept DEF RunRow

\* A reservation begins a phase.
LEMMA OrderReserve ==
    ASSUME FormInv, Order, ~Refused, PlanShards' = PlanShards, NEW c \in Controllers, Reserve(c)
    PROVE  Order'
  <1>0. /\ ~run.dispatched /\ run.status = "queued" /\ UNCHANGED <<receipts, kjob, pods>>
        /\ kjob["finalizer"].state = "absent" /\ run.attempts = 0
    BY DEF Reserve, cluster, Order, PhaseSound, AttemptsSound
  <1>1. /\ run'.phase = NextKind /\ run'.dispatched /\ run'.jobName = NextKind
        /\ run'.attempts = 1
    BY <1>0, ReservedRow
  <1>2. /\ run.phase \in {"unplanned", "finalizer"}
        /\ run.phase = "unplanned" => NextKind = "shards" /\ kjob["shards"].state = "absent"
        /\ run.phase = "finalizer" => NextKind = "finalizer" /\ kjob["shards"].state = "complete"
    BY <1>0, Kept DEF Order, PhaseSound, RunRow, Kinds, NextKind
  <1>3. pods = {}
    BY <1>0, <1>2, Kept DEF Order, PodsSound, PodSound, PodState, Kinds
  <1>4. JobsSound' /\ PodsSound'
    BY <1>0, <1>3 DEF Order, JobsSound, PodsSound
  <1>5. DoneSound'
    BY <1>0, <1>1, <1>2 DEF Order, DoneSound, JobsSound, Kinds
  <1>6. PhaseSound'
    BY <1>0, <1>1, <1>2 DEF Order, PhaseSound
  <1>7. AttemptsSound'
    BY <1>1 DEF AttemptsSound
  <1> QED BY <1>4, <1>5, <1>6, <1>7 DEF Order

\* A Job is created for the phase the run is in.
LEMMA OrderMade ==
    ASSUME FormInv, Order, Workers, PlanShards' = PlanShards, NEW c \in Controllers,
           ctl[c].phase \in {"dispatching", "creating"}, ctl[c].kind \in Kinds,
           kjob' = Created(ctl[c].kind, ctl[c].units), UNCHANGED <<receipts, run, pods>>
    PROVE  Order'
  <1> DEFINE kind == ctl[c].kind
  <1>0. kjob \in [Kinds -> JobRow] /\ run \in RunRow
    BY Kept
  <1>1. CASE kjob[kind].state # "absent"
    BY <1>1, OrderSame DEF Created
  <1>2. CASE kjob[kind].state = "absent"
    <2>0. kjob[kind].incarnation = 0 /\ ctl[c].units \in 0..Parallelism
      BY <1>2, Kept DEF Order, JobsSound, ControllerState
    <2>1. kjob' = [kjob EXCEPT ![kind] = Fresh(ctl[c].units, 1)]
      BY <1>2, <2>0 DEF Created, Fresh
    <2>2. /\ kjob'[kind] = Fresh(ctl[c].units, 1)
          /\ \A other \in Kinds \ {kind} : kjob'[other] = kjob[other]
      BY <1>0, <2>1
    <2>3. /\ kjob'[kind].state = "active" /\ kjob'[kind].incarnation = 1 /\ kjob'[kind].done = {}
          /\ ~kjob'[kind].deleting
      BY <2>2 DEF Fresh, NoJob
    <2>4. run.phase = kind /\ run.dispatched
      BY <1>0, <1>2 DEF Workers, MaySend, Order, PhaseSound, RunRow, Kinds
    <2>5. pods = {}
      BY <1>2, <2>4 DEF Order, PodsSound, PodSound
    <2>6. JobsSound'
      BY <2>2, <2>3 DEF Order, JobsSound
    <2>7. PodsSound'
      BY <2>5 DEF PodsSound
    <2>8. DoneSound'
      BY <1>2, <2>2, <2>3, <2>4 DEF Order, DoneSound, Kinds
    <2>9. PhaseSound'
      BY <1>2, <2>2, <2>3, <2>4 DEF Order, PhaseSound, Kinds
    <2>10. AttemptsSound'
      BY <2>3, <2>4 DEF Order, AttemptsSound
    <2> QED BY <2>6, <2>7, <2>8, <2>9, <2>10 DEF Order
  <1> QED BY <1>1, <1>2

\* A Pod goes on to its next phase.
LEMMA OrderReplaced ==
    ASSUME Order, PlanShards' = PlanShards, NEW p \in pods, NEW q,
           q.kind = p.kind, q.index = p.index, PodSound(q)',
           pods' = (pods \ {p}) \cup {q}, kjob' = kjob,
           run'.phase = run.phase, run'.dispatched = run.dispatched, run'.jobName = run.jobName,
           run'.attempts = run.attempts, run'.token = run.token,
           run'.status = run.status \/ (run.dispatched /\ run'.status = "running"),
           \A shard : receipts[shard] # NoResult => receipts'[shard] # NoResult
    PROVE  Order'
  <1>1. JobsSound'
    BY DEF Order, JobsSound
  <1>2. PodsSound'
    <2>1. ASSUME NEW r \in pods \ {p}
          PROVE  PodSound(r)' /\ r.index # p.index
      <3>1. PodSound(r) /\ r.index # p.index
        BY DEF Order, PodsSound
      <3> QED BY <3>1 DEF PodSound, Indexes
    <2>2. \A r \in pods' : PodSound(r)'
      BY <2>1
    <2>3. \A r, s \in pods' : r.index = s.index => r = s
      BY <2>1 DEF Order, PodsSound
    <2> QED BY <2>2, <2>3 DEF PodsSound
  <1>3. DoneSound'
    BY DEF Order, DoneSound
  <1>4. PhaseSound'
    BY DEF Order, PhaseSound
  <1>5. AttemptsSound'
    BY DEF Order, AttemptsSound
  <1> QED BY <1>1, <1>2, <1>3, <1>4, <1>5 DEF Order

\* The Pods of a run that goes on.
LEMMA LoadedRow ==
    ASSUME FormInv, Order, ~Dead, NEW p \in pods, LoadContext(p)
    PROVE  /\ p.phase = "starting" /\ run.dispatched /\ run' = [run EXCEPT !.status = "running"]
           /\ pods' = (pods \ {p}) \cup {[p EXCEPT !.phase = "executing"]}
           /\ UNCHANGED <<receipts, kjob, ctl>>
  <1>1. run.dispatched
    BY Kept DEF Order, PodsSound, PodSound, PhaseSound, PodState, Kinds
  <1> QED BY <1>1 DEF LoadContext, Dead, Becomes, PodUnchanged, control

\* The fields a phase leaves alone.
LEMMA PodFields ==
    ASSUME FormInv, NEW p \in pods, NEW phase \in PodPhases, NEW content
    PROVE  /\ [p EXCEPT !.phase = phase].kind = p.kind /\ [p EXCEPT !.phase = phase].index = p.index
           /\ [p EXCEPT !.phase = phase].incarnation = p.incarnation
           /\ [p EXCEPT !.phase = phase].phase = phase
           /\ [p EXCEPT !.phase = phase, !.content = content].kind = p.kind
           /\ [p EXCEPT !.phase = phase, !.content = content].index = p.index
           /\ [p EXCEPT !.phase = phase, !.content = content].incarnation = p.incarnation
           /\ [p EXCEPT !.phase = phase, !.content = content].phase = phase
  BY Kept DEF PodState

LEMMA OrderLoaded ==
    ASSUME FormInv, Order, ~Dead, PlanShards' = PlanShards, NEW p \in pods, LoadContext(p)
    PROVE  Order'
  <1> DEFINE q == [p EXCEPT !.phase = "executing"]
  <1>1. /\ p.phase = "starting" /\ run.dispatched /\ run' = [run EXCEPT !.status = "running"]
        /\ pods' = (pods \ {p}) \cup {q} /\ receipts' = receipts /\ kjob' = kjob
    BY LoadedRow
  <1>2. /\ run'.phase = run.phase /\ run'.dispatched = run.dispatched /\ run'.jobName = run.jobName
        /\ run'.attempts = run.attempts /\ run'.status = "running" /\ run'.token = run.token
    BY <1>1, Kept DEF RunRow
  <1>3. q.kind = p.kind /\ q.index = p.index /\ q.incarnation = p.incarnation /\ q.phase = "executing"
    BY PodFields DEF PodPhases
  <1> HIDE DEF q
  <1>4. PodSound(p)
    BY DEF Order, PodsSound
  <1>5. PodSound(q)'
    BY <1>1, <1>2, <1>3, <1>4 DEF PodSound, Indexes
  <1> QED BY <1>1, <1>2, <1>3, <1>5, OrderReplaced

\* A shard of a run that goes on is inferred as before, and recorded.
LEMMA OrderRecorded ==
    ASSUME FormInv, Order, Quiet', PlanShards' = PlanShards, NEW p \in pods, RecordReceipt(p)
    PROVE  Order'
  <1>q. PICK q : q = [p EXCEPT !.phase = "recorded"]
    OBVIOUS
  <1>0. /\ p.phase = "executing" /\ p.kind = "shards" /\ run' = run /\ kjob' = kjob
        /\ p.index \in Shards /\ PodSound(p)
    BY Kept DEF RecordReceipt, PodState, Order, PodsSound
  <1>1. run.status = "running" /\ run.dispatched
    BY <1>0 DEF PodSound, Order, PhaseSound
  <1>2. PICK content \in Results :
          /\ Inferred(p.index, content)
          /\ IF run.status = "running" /\ run.dispatched /\ ReceiptAccepted(p.index, content)
             THEN /\ receipts' = [receipts EXCEPT ![p.index] = content]
                  /\ Becomes(p, "recorded")
             ELSE Becomes(p, "failing") /\ UNCHANGED receipts
    BY DEF RecordReceipt
  <1>3. ReceiptAccepted(p.index, content)
    <2>1. ~Accident("varying")
      BY NoAccident
    <2> QED BY <1>2, <2>1 DEF Inferred, ReceiptAccepted
  <1>4. receipts' = [receipts EXCEPT ![p.index] = content] /\ pods' = (pods \ {p}) \cup {q}
    BY <1>q, <1>1, <1>2, <1>3 DEF Becomes
  <1>5. q.kind = p.kind /\ q.index = p.index /\ q.incarnation = p.incarnation /\ q.phase = "recorded"
    BY <1>q, PodFields DEF PodPhases
  <1>6. receipts'[p.index] # NoResult /\ \A shard : receipts[shard] # NoResult => receipts'[shard] # NoResult
    BY <1>0, <1>4, Kept
  <1>7. PodSound(q)'
    BY <1>0, <1>1, <1>5, <1>6 DEF PodSound, Indexes
  <1>8. /\ run'.phase = run.phase /\ run'.dispatched = run.dispatched /\ run'.jobName = run.jobName
        /\ run'.attempts = run.attempts /\ run'.token = run.token /\ run'.status = run.status
    BY <1>0
  <1>9. kjob' = kjob
    BY <1>0
  <1> QED BY <1>1, <1>4, <1>5, <1>6, <1>7, <1>8, <1>9, OrderReplaced

\* The receipts are complete when the finalizer reads them.
LEMMA OrderAggregated ==
    ASSUME FormInv, Order, PlanShards' = PlanShards, NEW p \in pods, Aggregate(p)
    PROVE  Order'
  <1>q. PICK q : q = [p EXCEPT !.phase = "aggregated", !.content = receipts]
    OBVIOUS
  <1>0. /\ p.phase = "executing" /\ p.kind = "finalizer" /\ run' = run /\ kjob' = kjob
        /\ receipts' = receipts /\ PodSound(p)
    BY DEF Aggregate, Order, PodsSound
  <1>1. run.status = "running" /\ run.dispatched /\ ReceiptsComplete
    <2>1. run.status = "running" /\ run.phase = "finalizer" /\ kjob["finalizer"].state = "active"
      BY <1>0 DEF PodSound
    <2>2. run.dispatched /\ kjob["shards"].state = "complete"
      BY <2>1 DEF Order, PhaseSound
    <2> QED BY <2>1, <2>2 DEF Order, DoneSound, ReceiptsComplete
  <1>2. pods' = (pods \ {p}) \cup {q}
    BY <1>q, <1>1 DEF Aggregate
  <1>3. q.kind = p.kind /\ q.index = p.index /\ q.incarnation = p.incarnation /\ q.phase = "aggregated"
    BY <1>q, PodFields DEF PodPhases
  <1>4. PodSound(q)'
    BY <1>0, <1>1, <1>3 DEF PodSound, Indexes
  <1>5. /\ run'.phase = run.phase /\ run'.dispatched = run.dispatched /\ run'.jobName = run.jobName
        /\ run'.attempts = run.attempts /\ run'.token = run.token /\ run'.status = run.status
    BY <1>0
  <1>6. kjob' = kjob /\ receipts' = receipts
    BY <1>0
  <1> QED BY <1>1, <1>2, <1>3, <1>4, <1>5, <1>6, OrderReplaced

\* A Pod that has recorded its receipt leaves its index done.
LEMMA OrderSucceeded ==
    ASSUME FormInv, Order, PlanShards' = PlanShards, NEW p \in pods, PodSucceeds(p)
    PROVE  Order' /\ (kjob["shards"].state = "complete" => FALSE)
  <1> DEFINE job == kjob["shards"]
             done == job.done \cup {p.index}
             state == IF done = PlanShards THEN "complete" ELSE job.state
  <1>t. kjob \in [Kinds -> JobRow] /\ "shards" \in Kinds /\ "finalizer" \in Kinds
    BY Kept DEF Kinds
  <1>0. PodSound(p) /\ p.phase = "recorded"
    BY DEF PodSucceeds, Order, PodsSound
  <1>1. /\ p.kind = "shards" /\ run.phase = "shards" /\ job.state = "active" /\ p.incarnation = 1
        /\ receipts[p.index] # NoResult /\ run.status = "running" /\ p.index \in PlanShards \ job.done
    BY <1>0 DEF PodSound, Indexes
  <1>2. Owned(p)
    BY <1>t, <1>1 DEF Owned, Order, JobsSound
  <1>3. /\ pods' = pods \ {p} /\ run' = run /\ receipts' = receipts
        /\ kjob' = [kjob EXCEPT !["shards"].done = done, !["shards"].state = state]
    BY <1>1, <1>2 DEF PodSucceeds, PodExits
  <1>4. state \in {"active", "complete"} /\ (state = "complete" => done = PlanShards)
    BY <1>1
  <1> HIDE DEF done, state
  <1>5. /\ kjob'["shards"].done = done /\ kjob'["shards"].state = state
        /\ kjob'["shards"].deleting = job.deleting /\ kjob'["shards"].incarnation = job.incarnation
        /\ kjob'["finalizer"] = kjob["finalizer"]
    BY <1>t, <1>3 DEF JobRow, Kinds
  <1>6. JobsSound'
    BY <1>1, <1>4, <1>5 DEF Order, JobsSound, Kinds
  <1>7. PodsSound'
    <2>1. ASSUME NEW r \in pods \ {p}
          PROVE  PodSound(r)'
      <3>1. PodSound(r) /\ r.index # p.index /\ r.kind = "shards"
        BY <1>1 DEF Order, PodsSound, PodSound
      <3>2. done # PlanShards
        BY <3>1 DEF done, PodSound, Indexes
      <3>3. state = "active"
        BY <1>4, <3>2
      <3> QED BY <1>3, <1>5, <3>1, <3>3 DEF PodSound, Indexes, done
    <2> QED BY <1>3, <2>1 DEF Order, PodsSound
  <1>8. DoneSound'
    BY <1>1, <1>3, <1>4, <1>5 DEF Order, DoneSound, done
  <1>9. PhaseSound'
    BY <1>1, <1>3, <1>5 DEF Order, PhaseSound
  <1>10. AttemptsSound'
    BY <1>1, <1>3, <1>4, <1>5 DEF Order, AttemptsSound
  <1> QED BY <1>1, <1>6, <1>7, <1>8, <1>9, <1>10 DEF Order

\* A Pod is started for what is not done and has no Pod.
LEMMA OrderStarted ==
    ASSUME FormInv, Order, PlanShards' = PlanShards, NEW kind \in Kinds, NEW index \in Shards,
           StartPod(kind, index)
    PROVE  Order'
  <1>q. PICK q : q = [kind |-> kind, index |-> index, incarnation |-> kjob[kind].incarnation,
                      phase |-> "starting", content |-> NoReceipts]
    OBVIOUS
  <1>0. /\ UNCHANGED <<receipts, run, kjob>> /\ pods' = pods \cup {q}
        /\ kjob[kind].state = "active" /\ index \in Indexes(kind) \ kjob[kind].done
        /\ \A p \in PodsOf(kind) : p.incarnation = kjob[kind].incarnation => p.index # index
    BY <1>q DEF StartPod, ClusterUnchanged, database, Indexes
  <1>1. q.kind = kind /\ q.index = index /\ q.incarnation = kjob[kind].incarnation /\ q.phase = "starting"
    BY <1>q
  <1>2. kjob[kind].incarnation = 1
    BY <1>0 DEF Order, JobsSound
  <1>3. kind = run.phase
    BY <1>0, Kept DEF Order, PhaseSound, RunRow, Kinds
  <1>4. PodSound(q)'
    BY <1>0, <1>1, <1>2, <1>3 DEF PodSound, Indexes
  <1>5. ASSUME NEW p \in pods
        PROVE  PodSound(p)' /\ p.index # index
    <2>1. PodSound(p)
      BY DEF Order, PodsSound
    <2>2. p \in PodsOf(kind) /\ p.incarnation = kjob[kind].incarnation
      BY <1>2, <1>3, <2>1 DEF PodSound, PodsOf
    <2> QED BY <1>0, <2>1, <2>2 DEF PodSound, Indexes
  <1>6. PodsSound'
    <2>1. \A p \in pods' : PodSound(p)'
      BY <1>0, <1>4, <1>5
    <2>2. \A p, r \in pods' : p.index = r.index => p = r
      BY <1>0, <1>1, <1>5 DEF Order, PodsSound
    <2> QED BY <2>1, <2>2 DEF PodsSound
  <1>7. JobsSound' /\ DoneSound' /\ PhaseSound' /\ AttemptsSound'
    BY <1>0 DEF Order, JobsSound, DoneSound, PhaseSound, AttemptsSound
  <1> QED BY <1>6, <1>7 DEF Order

\* The row that a reconciliation of a run that goes on leaves: the attempt that
\* made a missing Job is counted, the run is running, or its finalizer is due.
AppliedWell ==
    \/ /\ run'.phase = run.phase /\ run'.dispatched = run.dispatched /\ run'.jobName = run.jobName
       /\ \/ run'.attempts = run.attempts
          \/ run.dispatched /\ run'.attempts = 2 /\ kjob[run.phase].state # "absent"
       /\ run'.status = run.status \/ (run.dispatched /\ run'.status = "running")
    \/ /\ run.phase = "shards" /\ kjob["shards"].state = "complete"
       /\ run'.phase = "finalizer" /\ ~run'.dispatched /\ run'.jobName = "none"
       /\ run'.attempts = 0 /\ run'.status = "queued"

LEMMA ReconciledRow ==
    ASSUME FormInv, EvidenceInv, CauseInv, Live, MaximumDispatchAttempts >= 2,
           NEW c \in Controllers, ReconcileApply(c)
    PROVE  /\ AppliedWell
           /\ IF run.token = c THEN run'.token = NoController ELSE run' = run
  <1> DEFINE released == [run EXCEPT !.token = NoController, !.leaseLive = FALSE]
  <1>0. /\ run \in RunRow /\ Order /\ MayApply(c) /\ Uneventful /\ ~Dead
        /\ ctl[c].phase = "applying" /\ Reconciling(c)
        /\ MaximumDispatchAttempts \in Nat
    BY FanOutAssumption, Kept DEF CauseInv, Live, ReconcileApply, Reconciling, Workers
  <1>1. released \in RunRow /\ released.token = NoController
        /\ released.phase = run.phase /\ released.dispatched = run.dispatched
        /\ released.jobName = run.jobName /\ released.attempts = run.attempts
        /\ released.status = run.status
    BY <1>0 DEF RunRow
  <1>2. run' = IF run.token # c THEN run ELSE IF SnapshotHolds(c) THEN AppliedTo(released, c) ELSE released
    BY DEF ReconcileApply, TokenHeld
  <1> HIDE DEF released
  <1>3. CASE run.token # c
    BY <1>2, <1>3 DEF AppliedWell
  <1>4. CASE run.token = c /\ ~SnapshotHolds(c)
    BY <1>1, <1>2, <1>4 DEF AppliedWell
  <1>5. CASE run.token = c /\ SnapshotHolds(c)
    <2>1. /\ run.dispatched /\ run.jobName = run.phase /\ ctl[c].kind = run.phase
          /\ ctl[c].seen = "missing" => run.attempts = 1 /\ kjob[run.phase].state # "absent"
          /\ ctl[c].seen = "complete" => kjob[run.phase].state = "complete"
          /\ ctl[c].seen \notin {"missing_error", "failed", "error"}
      BY <1>0, <1>5 DEF MayApply, Order, PhaseSound, Uneventful
    <2>2. ctl[c].seen \notin {"clean", "unclean"}
      BY <1>0 DEF EvidenceInv, FormInv, MemoryInv, Memory
    <2>3. run' = AppliedTo(released, c)
      BY <1>2, <1>5
    <2>4. CASE ctl[c].seen = "missing"
      <3>1. released.attempts + 1 = 2 /\ ~(2 > MaximumDispatchAttempts)
        BY <1>0, <1>1, <2>1, <2>4
      <3>2. run' = [released EXCEPT !.attempts = 2, !.status = released.status]
        BY <2>3, <2>4, <3>1 DEF AppliedTo
      <3>3. /\ run'.attempts = 2 /\ run'.status = released.status /\ run'.phase = released.phase
            /\ run'.dispatched = released.dispatched /\ run'.jobName = released.jobName
            /\ run'.token = released.token
        BY <1>1, <3>2 DEF RunRow
      <3> QED BY <1>1, <1>5, <2>1, <2>4, <3>3 DEF AppliedWell
    <2>5. CASE ctl[c].seen = "active"
      <3>1. run' = [released EXCEPT !.status = "running"]
        BY <2>3, <2>5 DEF AppliedTo
      <3>2. /\ run'.attempts = released.attempts /\ run'.status = "running" /\ run'.phase = released.phase
            /\ run'.dispatched = released.dispatched /\ run'.jobName = released.jobName
            /\ run'.token = released.token
        BY <1>1, <3>1 DEF RunRow
      <3> QED BY <1>1, <1>5, <2>1, <3>2 DEF AppliedWell
    <2>6. CASE ctl[c].seen = "complete"
      <3>1. run.phase = "shards" /\ kjob["shards"].state = "complete"
        BY <1>0, <2>1, <2>6 DEF Order, DoneSound, PhaseSound, RunRow, Kinds
      <3>2. kjob["shards"].done = PlanShards /\ ReceiptsComplete
        BY <1>0, <3>1 DEF Order, DoneSound, ReceiptsComplete
      <3>3. run.status = "running"
        <4>1. PlanShards # {}
          <5>1. Planned \in Nat /\ Planned > 1
            BY PlanNumbers, FanOutAssumption DEF FormInv, TypeInv, Planned
          <5>2. 0 \in 0..Planned - 1
            BY <5>1
          <5> QED BY <5>2 DEF PlanShards
        <4> QED BY <1>0, <3>1, <3>2, <4>1 DEF Order, DoneSound
      <3>4. run' = PhaseEnds(released)
        BY <2>3, <2>6 DEF AppliedTo
      <3>5. run' = [released EXCEPT !.phase = "finalizer", !.shardJob = TRUE, !.dispatched = FALSE,
                                    !.jobName = "none", !.attempts = 0, !.status = "queued"]
        BY <1>1, <3>1, <3>2, <3>3, <3>4 DEF PhaseEnds
      <3>6. /\ run'.phase = "finalizer" /\ ~run'.dispatched /\ run'.jobName = "none"
            /\ run'.attempts = 0 /\ run'.status = "queued" /\ run'.token = released.token
        BY <1>1, <3>5 DEF RunRow
      <3> QED BY <1>1, <1>5, <3>1, <3>6 DEF AppliedWell
    <2>7. CASE ctl[c].seen \notin {"missing", "missing_error", "clean", "unclean", "failed", "complete", "active"}
      <3>1. run' = released
        BY <2>3, <2>7 DEF AppliedTo
      <3> QED BY <1>1, <1>5, <3>1 DEF AppliedWell
    <2> QED BY <2>1, <2>2, <2>4, <2>5, <2>6, <2>7
  <1> QED BY <1>3, <1>4, <1>5

LEMMA OrderApplied ==
    ASSUME FormInv, EvidenceInv, CauseInv, Live, MaximumDispatchAttempts >= 2, PlanShards' = PlanShards,
           NEW c \in Controllers, ReconcileApply(c)
    PROVE  Order'
  <1>0. Order /\ UNCHANGED <<receipts, kjob, pods>> /\ NoController \notin Controllers
    BY Kept DEF CauseInv, Live, ReconcileApply, cluster
  <1>1. /\ AppliedWell
        /\ IF run.token = c THEN run'.token = NoController ELSE run' = run
    BY ReconciledRow
  <1>2. CASE run.token # c
    BY <1>0, <1>1, <1>2, OrderSame
  <1>3. CASE /\ run'.phase = run.phase /\ run'.dispatched = run.dispatched /\ run'.jobName = run.jobName
             /\ \/ run'.attempts = run.attempts
                \/ run.dispatched /\ run'.attempts = 2 /\ kjob[run.phase].state # "absent"
             /\ run'.status = run.status \/ (run.dispatched /\ run'.status = "running")
             /\ run.token = c
    <2>1. run.dispatched /\ run'.token = NoController
      BY <1>0, <1>1, <1>3 DEF Order, PhaseSound
    <2> QED BY <1>0, <1>3, <2>1, OrderKept
  <1>4. CASE /\ run.phase = "shards" /\ kjob["shards"].state = "complete"
             /\ run'.phase = "finalizer" /\ ~run'.dispatched /\ run'.jobName = "none"
             /\ run'.attempts = 0 /\ run'.status = "queued" /\ run.token = c
    <2>1. pods = {}
      BY <1>0, <1>4 DEF Order, PodsSound, PodSound
    <2>2. kjob["finalizer"].state = "absent" /\ run'.token = NoController
      BY <1>0, <1>1, <1>4 DEF Order, PhaseSound
    <2>3. JobsSound' /\ PodsSound' /\ AttemptsSound'
      BY <1>0, <1>4, <2>1 DEF Order, JobsSound, PodsSound, AttemptsSound
    <2>4. DoneSound' /\ PhaseSound'
      BY <1>0, <1>4, <2>2 DEF Order, DoneSound, PhaseSound
    <2> QED BY <2>3, <2>4 DEF Order
  <1> QED BY <1>1, <1>2, <1>3, <1>4 DEF AppliedWell

\* Every step of a run that goes on keeps the order.
LEMMA OrderNext ==
    ASSUME FormInv, EvidenceInv, EnvelopeInv, CauseInv, [Next]_vars, Live', MaximumDispatchAttempts >= 2
    PROVE  Order'
  <1>0. /\ Live /\ Order /\ Workers /\ ~Dead /\ ~Refused /\ Quiet /\ Quiet' /\ PlanShards' = PlanShards
    BY LiveBefore, QuietBefore DEF CauseInv, Live
  <1>1. CASE Beside
    BY <1>0, <1>1, OrderSame DEF Beside
  <1>2. CASE LeaseExpires
    <2>1. run' = [run EXCEPT !.leaseLive = FALSE] /\ UNCHANGED <<receipts, kjob, pods>>
      BY <1>2 DEF LeaseExpires, cluster
    <2>2. /\ run'.phase = run.phase /\ run'.dispatched = run.dispatched /\ run'.jobName = run.jobName
          /\ run'.attempts = run.attempts /\ run'.status = run.status /\ run'.token = run.token
      BY <2>1, Kept DEF RunRow
    <2>3. CASE run.dispatched
      BY <1>0, <2>1, <2>2, <2>3, OrderKept
    <2>4. CASE ~run.dispatched
      BY <1>0, <2>1, <2>2, <2>4, OrderKept
    <2> QED BY <2>3, <2>4
  <1>3. ASSUME NEW c \in Controllers, Reserve(c)
        PROVE  Order'
    BY <1>0, <1>3, OrderReserve
  <1>4. ASSUME NEW c \in Controllers, Dispatch(c) \/ RecreateJob(c)
        PROVE  Order'
    <2>1. /\ ctl[c].phase \in {"dispatching", "creating"} /\ kjob' = Created(ctl[c].kind, ctl[c].units)
          /\ UNCHANGED <<receipts, run, pods>>
      BY <1>4 DEF Dispatch, RecreateJob, database
    <2>2. ctl[c].kind \in Kinds
      BY <1>0, <2>1, NoConflict
    <2> QED BY <1>0, <2>1, <2>2, OrderMade
  <1>5. ASSUME NEW c \in Controllers, ReconcileClaim(c)
        PROVE  Order'
    <2>1. run.dispatched /\ run' = [run EXCEPT !.token = c, !.leaseLive = TRUE] /\ UNCHANGED <<receipts, kjob, pods>>
      BY <1>5 DEF ReconcileClaim, cluster
    <2>2. /\ run'.phase = run.phase /\ run'.dispatched = run.dispatched /\ run'.jobName = run.jobName
          /\ run'.attempts = run.attempts /\ run'.status = run.status
      BY <2>1, Kept DEF RunRow
    <2> QED BY <1>0, <2>1, <2>2, OrderKept
  <1>6. ASSUME NEW c \in Controllers, ObserveJob(c)
        PROVE  Order'
    <2>1. UNCHANGED <<receipts, run, kjob, pods>>
      BY <1>6 DEF ObserveJob, database, cluster
    <2> QED BY <1>0, <2>1, OrderSame
  <1>7. ASSUME NEW c \in Controllers, ReconcileApply(c)
        PROVE  Order'
    BY <1>0, <1>7, OrderApplied
  <1>8. ASSUME NEW p \in pods, LoadContext(p) \/ RecordReceipt(p) \/ Aggregate(p) \/ PodSucceeds(p)
        PROVE  Order'
    BY <1>0, <1>8, OrderLoaded, OrderRecorded, OrderAggregated, OrderSucceeded
  <1>9. ASSUME NEW kind \in Kinds, NEW index \in Shards, StartPod(kind, index)
        PROVE  Order'
    BY <1>0, <1>9, OrderStarted
  <1> QED BY <1>1, <1>2, <1>3, <1>4, <1>5, <1>6, <1>7, <1>8, <1>9, LiveSteps DEF GoesOn

\* What a control worker remembers after a step of a run that goes on.
LEMMA LiveMemory ==
    ASSUME FormInv, EvidenceInv, EnvelopeInv, CauseInv, [Next]_vars, Live', NEW c \in Controllers
    PROVE  ctl'[c] \in {ctl[c], Idle} \/ Reserve(c) \/ ReconcileClaim(c) \/ ObserveJob(c) \/ RecreateJob(c)
  <1>0. ctl \in [Controllers -> ControllerState] /\ Live
    BY Kept, LiveBefore
  <1>1. CASE Beside \/ LeaseExpires
    BY <1>1 DEF Beside, LeaseExpires, control
  <1>2. ASSUME NEW d \in Controllers, Dispatch(d)
        PROVE  ctl'[c] \in {ctl[c], Idle}
    <2>1. ~Conflicting(ctl[d].kind, ctl[d].units)
      BY <1>0, <1>2, NoConflict DEF Dispatch, Live
    <2> QED BY <1>0, <1>2, <2>1 DEF Dispatch
  <1>3. ASSUME NEW d \in Controllers, ReconcileApply(d)
        PROVE  ctl'[c] \in {ctl[c], Idle}
    BY <1>0, <1>3 DEF ReconcileApply
  <1>4. ASSUME NEW d \in Controllers, d # c,
               Reserve(d) \/ ReconcileClaim(d) \/ ObserveJob(d) \/ RecreateJob(d)
        PROVE  ctl'[c] = ctl[c]
    <2>1. CASE Reserve(d)
      <3>1. ~Refused
        BY <1>0 DEF Live
      <3> QED BY <1>0, <1>4, <2>1, <3>1 DEF Reserve
    <2>2. CASE ReconcileClaim(d)
      BY <1>0, <1>4, <2>2 DEF ReconcileClaim
    <2>3. CASE ObserveJob(d)
      BY <1>0, <1>4, <2>3 DEF ObserveJob, Seen
    <2>4. CASE RecreateJob(d)
      BY <1>0, <1>4, <2>4 DEF RecreateJob, Seen
    <2> QED BY <1>4, <2>1, <2>2, <2>3, <2>4
  <1>5. ASSUME NEW p \in pods, LoadContext(p) \/ RecordReceipt(p) \/ Aggregate(p) \/ PodSucceeds(p)
        PROVE  ctl' = ctl
    BY <1>5 DEF LoadContext, RecordReceipt, Aggregate, PodSucceeds, PodUnchanged, control
  <1>6. ASSUME NEW kind \in Kinds, NEW index \in Shards, StartPod(kind, index)
        PROVE  ctl' = ctl
    BY <1>6 DEF StartPod, ClusterUnchanged, control
  <1> QED BY <1>1, <1>2, <1>3, <1>4, <1>5, <1>6, LiveSteps DEF GoesOn

\* A Job of a run that goes on stays there, and stays complete.
LEMMA JobsStay ==
    ASSUME FormInv, EvidenceInv, EnvelopeInv, CauseInv, [Next]_vars, Live', NEW kind \in Kinds
    PROVE  /\ kjob[kind].state # "absent" => kjob'[kind].state # "absent"
           /\ kjob[kind].state = "complete" => kjob'[kind].state = "complete"
  <1>0. kjob \in [Kinds -> JobRow] /\ Live /\ Order /\ PlanShards' = PlanShards
    BY Kept, LiveBefore, QuietBefore DEF CauseInv, Live
  <1>1. CASE kjob' = kjob
    BY <1>1
  <1>2. ASSUME NEW name, NEW units, kjob' = Created(name, units)
        PROVE  kjob[kind].state # "absent" => kjob'[kind] = kjob[kind]
    BY <1>0, <1>2 DEF Created
  <1>3. ASSUME NEW p \in pods, PodSucceeds(p)
        PROVE  /\ kjob[kind].state # "absent" => kjob'[kind].state # "absent"
               /\ kjob[kind].state = "complete" => kjob'[kind].state = "complete"
    <2>1. JobMoves(kind)
      BY ClusterMoves DEF FormInv
    <2>2. pods' # pods /\ p.phase = "recorded"
      BY <1>3 DEF PodSucceeds, PodExits
    <2>3. ASSUME NEW q \in pods, q.kind = kind, JobEnds(q)
          PROVE  kjob[kind].state = "active" /\ kjob'[kind].state # "absent"
      BY <1>0, <2>3 DEF JobEnds, JobRow, Owned
    <2> QED BY <2>1, <2>2, <2>3 DEF JobMoves, Gone, Made
  <1>4. \/ kjob' = kjob
        \/ \E name, units : kjob' = Created(name, units)
        \/ \E p \in pods : PodSucceeds(p)
    <2>1. CASE Beside \/ LeaseExpires
      BY <2>1 DEF Beside, LeaseExpires, cluster
    <2>2. ASSUME NEW c \in Controllers, Reserve(c) \/ ReconcileClaim(c) \/ ObserveJob(c) \/ ReconcileApply(c)
          PROVE  kjob' = kjob
      BY <2>2 DEF Reserve, ReconcileClaim, ObserveJob, ReconcileApply, cluster
    <2>3. ASSUME NEW c \in Controllers, Dispatch(c) \/ RecreateJob(c)
          PROVE  \E name, units : kjob' = Created(name, units)
      BY <2>3 DEF Dispatch, RecreateJob
    <2>4. ASSUME NEW p \in pods, LoadContext(p) \/ RecordReceipt(p) \/ Aggregate(p)
          PROVE  kjob' = kjob
      BY <1>0, <2>4, LoadedRow DEF RecordReceipt, Aggregate, Live
    <2>5. ASSUME NEW name \in Kinds, NEW index \in Shards, StartPod(name, index)
          PROVE  kjob' = kjob
      BY <2>5 DEF StartPod
    <2> QED BY <2>1, <2>2, <2>3, <2>4, <2>5, LiveSteps DEF GoesOn
  <1> QED BY <1>1, <1>2, <1>3, <1>4

\* The phase of a run goes forward, and the holder of the token keeps its row.
LEMMA RowStays ==
    ASSUME FormInv, EvidenceInv, EnvelopeInv, CauseInv, [Next]_vars, Live', MaximumDispatchAttempts >= 2
    PROVE  /\ run.phase # "unplanned" => run'.phase # "unplanned"
           /\ run.phase = "finalizer" /\ run.dispatched => run'.phase = "finalizer" /\ run'.dispatched
           /\ \A c \in Controllers : run'.token = c =>
                 \/ ReconcileClaim(c)
                 \/ /\ run.token = c /\ run'.dispatched = run.dispatched
                    /\ run'.jobName = run.jobName /\ run'.attempts = run.attempts
  <1> DEFINE Goal == /\ run.phase # "unplanned" => run'.phase # "unplanned"
                     /\ run.phase = "finalizer" /\ run.dispatched => run'.phase = "finalizer" /\ run'.dispatched
                     /\ \A c \in Controllers : run'.token = c =>
                           \/ ReconcileClaim(c)
                           \/ /\ run.token = c /\ run'.dispatched = run.dispatched
                              /\ run'.jobName = run.jobName /\ run'.attempts = run.attempts
  <1>0. run \in RunRow /\ Live /\ Order /\ NoController \notin Controllers
    BY Kept, LiveBefore DEF CauseInv
  <1>1. CASE run' = run
    BY <1>1
  <1>2. ASSUME NEW status, NEW live, \/ run' = [run EXCEPT !.status = status]
                                     \/ run' = [run EXCEPT !.leaseLive = live]
        PROVE  Goal
    <2>1. /\ run'.phase = run.phase /\ run'.dispatched = run.dispatched /\ run'.token = run.token
          /\ run'.jobName = run.jobName /\ run'.attempts = run.attempts
      BY <1>0, <1>2 DEF RunRow
    <2> QED BY <2>1
  <1>3. ASSUME NEW c \in Controllers, Reserve(c)
        PROVE  Goal
    <2>1. ~run.dispatched /\ run.token = NoController
      BY <1>0, <1>3 DEF Reserve, Order, PhaseSound
    <2>2. run'.token = NoController /\ run'.phase = NextKind
      BY <1>0, <1>3, <2>1, ReservedRow DEF Live
    <2> QED BY <1>0, <2>1, <2>2 DEF NextKind
  <1>4. ASSUME NEW c \in Controllers, ReconcileClaim(c)
        PROVE  Goal
    <2>1. run' = [run EXCEPT !.token = c, !.leaseLive = TRUE]
      BY <1>4 DEF ReconcileClaim
    <2>2. run'.phase = run.phase /\ run'.dispatched = run.dispatched /\ run'.token = c
      BY <1>0, <2>1 DEF RunRow
    <2> QED BY <1>4, <2>2
  <1>5. ASSUME NEW c \in Controllers, ReconcileApply(c)
        PROVE  Goal
    <2>1. /\ AppliedWell
          /\ IF run.token = c THEN run'.token = NoController ELSE run' = run
      BY <1>0, <1>5, ReconciledRow
    <2>2. run.phase # "unplanned" => run'.phase # "unplanned"
      BY <2>1 DEF AppliedWell
    <2>3. run.phase = "finalizer" /\ run.dispatched => run'.phase = "finalizer" /\ run'.dispatched
      BY <2>1 DEF AppliedWell
    <2> QED BY <1>0, <2>1, <2>2, <2>3
  <1>6. \/ run' = run \/ LeaseExpires
        \/ \E c \in Controllers : Reserve(c) \/ ReconcileClaim(c) \/ ReconcileApply(c)
        \/ \E p \in pods : LoadContext(p)
    <2>1. ASSUME NEW c \in Controllers, Dispatch(c) \/ ObserveJob(c) \/ RecreateJob(c)
          PROVE  run' = run
      BY <2>1 DEF Dispatch, ObserveJob, RecreateJob, database
    <2>2. ASSUME NEW p \in pods, RecordReceipt(p) \/ Aggregate(p) \/ PodSucceeds(p)
          PROVE  run' = run
      BY <2>2 DEF RecordReceipt, Aggregate, PodSucceeds
    <2>3. ASSUME NEW kind \in Kinds, NEW index \in Shards, StartPod(kind, index)
          PROVE  run' = run
      BY <2>3 DEF StartPod, ClusterUnchanged, database
    <2>4. CASE Beside
      BY <2>4 DEF Beside
    <2> QED BY <2>1, <2>2, <2>3, <2>4, LiveSteps DEF GoesOn
  <1>7. CASE LeaseExpires
    BY <1>2, <1>7 DEF LeaseExpires
  <1>8. ASSUME NEW p \in pods, LoadContext(p)
        PROVE  Goal
    BY <1>0, <1>2, <1>8, LoadedRow DEF Live
  <1> QED BY <1>1, <1>3, <1>4, <1>5, <1>6, <1>7, <1>8

\* The holder of the token looks at its Job.
LEMMA Observed ==
    ASSUME FormInv, EvidenceInv, CauseInv, Live, MaximumDispatchAttempts >= 2,
           NEW c \in Controllers, ObserveJob(c), run.token = c
    PROVE  \/ /\ ctl'[c] = [ctl[c] EXCEPT !.phase = "creating"] /\ run.attempts = 1
           \/ \E seen \in {"other", "active", "complete"} :
                 /\ ctl'[c] = [ctl[c] EXCEPT !.phase = "applying", !.seen = seen]
                 /\ seen = "complete" => kjob[ctl[c].kind].state = "complete"
  <1> DEFINE kind == ctl[c].kind
  <1>0. /\ ctl \in [Controllers -> ControllerState] /\ kjob \in [Kinds -> JobRow] /\ Order /\ MayApply(c)
        /\ ctl[c].phase = "observing" /\ Reconciling(c)
        /\ run.attempts \in Nat
    BY Kept DEF CauseInv, Live, Workers, ObserveJob, Reconciling, RunRow
  <1>1. run.dispatched /\ kind = run.phase /\ ctl[c].attempts = run.attempts /\ kind \in Kinds
    BY <1>0, KnownNames DEF MayApply, Order, PhaseSound, FormInv, NameInv
  <1>2. ASSUME NEW seen, Seen(c, seen)
        PROVE  ctl'[c] = [ctl[c] EXCEPT !.phase = "applying", !.seen = seen]
    BY <1>0, <1>2 DEF Seen
  <1>3. CASE kjob[kind].state # "absent"
    <2>1. kjob[kind].state \in {"active", "complete"}
      BY <1>0, <1>1, <1>3 DEF Order, JobsSound, JobRow, JobStates
    <2>2. Seen(c, "other") \/ Seen(c, kjob[kind].state)
      BY <1>3 DEF ObserveJob
    <2> QED BY <1>2, <2>1, <2>2
  <1>4. CASE kjob[kind].state = "absent"
    <2>1. PodsOf(kind) = {}
      <3>1. ASSUME NEW p \in pods, p.kind = kind
            PROVE  FALSE
        BY <1>0, <1>4, <3>1 DEF Order, PodsSound, PodSound
      <3> QED BY <3>1 DEF PodsOf
    <2>2. run.attempts = 1
      BY <1>0, <1>1, <1>4 DEF Order, AttemptsSound
    <2>3. ctl[c].attempts < MaximumDispatchAttempts
      BY <1>1, <2>2, FanOutAssumption
    <2> QED BY <1>0, <1>1, <1>4, <2>1, <2>2, <2>3 DEF ObserveJob
  <1> QED BY <1>3, <1>4

\* Every step of a run that goes on keeps what control workers rely on.
LEMMA WorkersNext ==
    ASSUME FormInv, EvidenceInv, EnvelopeInv, CauseInv, [Next]_vars, Live', MaximumDispatchAttempts >= 2
    PROVE  Workers'
  <1> SUFFICES ASSUME NEW c \in Controllers PROVE MaySend(c)' /\ MayApply(c)'
    BY DEF Workers
  <1>0. /\ ctl[c] \in ControllerState /\ Live /\ Order /\ MaySend(c) /\ MayApply(c) /\ run \in RunRow
        /\ ~Refused /\ run.status \in ActiveStatuses /\ ~halted /\ NoController \notin Controllers
    BY Kept, LiveBefore DEF CauseInv, Workers, Live
  <1>1. CASE ctl'[c] = Idle
    BY <1>1, IdleMemory DEF MaySend, MayApply, Reconciling
  <1>2. CASE ReconcileClaim(c)
    <2>1. run' = [run EXCEPT !.token = c, !.leaseLive = TRUE] /\ run.dispatched
      BY <1>2 DEF ReconcileClaim
    <2>2. run'.dispatched = run.dispatched /\ run'.jobName = run.jobName /\ run'.attempts = run.attempts
      BY <1>0, <2>1 DEF RunRow
    <2>3. ctl'[c] = [Idle EXCEPT !.phase = "observing", !.kind = run.jobName,
                                 !.units = run.units, !.status = run.status,
                                 !.halted = halted, !.attempts = run.attempts,
                                 !.cleanup = run.status \notin ActiveStatuses \/ halted,
                                 !.names = IF run.status \notin ActiveStatuses \/ halted
                                           THEN CleanupJobNames ELSE {}]
      BY <1>2, Kept DEF ReconcileClaim
    <2>4. /\ ctl'[c].phase = "observing" /\ ctl'[c].kind = run.jobName /\ ctl'[c].attempts = run.attempts
          /\ ctl'[c].seen = "none"
      BY <1>2, <2>3, ClaimMemory DEF FormInv
    <2>5. /\ run'.phase = run.phase /\ run.jobName = run.phase /\ run.phase # "unplanned"
      BY <1>0, <2>1 DEF RunRow, Order, PhaseSound
    <2> QED BY <2>1, <2>2, <2>4, <2>5 DEF MaySend, MayApply
  <1>3. CASE Reserve(c)
    <2>1. run'.phase = NextKind /\ run'.dispatched
      BY <1>0, <1>3, ReservedRow
    <2>2. PICK units : ctl' = [ctl EXCEPT ![c] = [Idle EXCEPT !.phase = "dispatching", !.kind = NextKind, !.units = units]]
      BY <1>0, <1>3 DEF Reserve
    <2>3. ctl'[c].phase = "dispatching" /\ ctl'[c].kind = NextKind
      BY <2>2, Kept DEF Idle
    <2> QED BY <2>1, <2>3 DEF MaySend, MayApply, Reconciling, NextKind
  <1>r. /\ run.phase # "unplanned" => run'.phase # "unplanned"
        /\ run.phase = "finalizer" /\ run.dispatched => run'.phase = "finalizer" /\ run'.dispatched
        /\ run'.token = c =>
             \/ ReconcileClaim(c)
             \/ /\ run.token = c /\ run'.dispatched = run.dispatched
                /\ run'.jobName = run.jobName /\ run'.attempts = run.attempts
    BY RowStays
  <1>j. ASSUME ctl[c].kind \in Kinds
        PROVE  /\ kjob[ctl[c].kind].state # "absent" => kjob'[ctl[c].kind].state # "absent"
               /\ kjob[ctl[c].kind].state = "complete" => kjob'[ctl[c].kind].state = "complete"
    BY <1>j, JobsStay
  <1>k. ctl[c].phase # "idle" => ctl[c].kind \in Kinds
    BY KnownNames DEF FormInv, NameInv
  <1>4. CASE ctl'[c] = ctl[c] /\ ~ReconcileClaim(c)
    <2>1. MaySend(c)'
      BY <1>0, <1>4, <1>r DEF MaySend
    <2>2. ASSUME run'.token = c, Reconciling(c)'
          PROVE  MayApply(c)'
      <3>1. /\ run.token = c /\ run'.dispatched = run.dispatched /\ run'.jobName = run.jobName
            /\ run'.attempts = run.attempts /\ Reconciling(c) /\ ctl[c].kind \in Kinds
        BY <1>4, <1>r, <1>k, <2>2 DEF Reconciling
      <3>2. /\ kjob[ctl[c].kind].state # "absent" => kjob'[ctl[c].kind].state # "absent"
            /\ kjob[ctl[c].kind].state = "complete" => kjob'[ctl[c].kind].state = "complete"
        BY <1>j, <3>1
      <3> QED BY <1>0, <1>4, <3>1, <3>2 DEF MayApply
    <2> QED BY <2>1, <2>2 DEF MayApply
  <1>5. CASE ObserveJob(c)
    <2>0. /\ run' = run /\ kjob' = kjob /\ ctl[c].phase = "observing" /\ Reconciling(c)
      BY <1>5 DEF ObserveJob, Reconciling, database, cluster
    <2>1. CASE run.token = c
      <3>0. /\ run.dispatched /\ ctl[c].kind = run.jobName /\ ctl[c].attempts = run.attempts
            /\ ctl[c].seen \notin {"missing_error", "failed"}
            /\ run.jobName = run.phase /\ run.phase # "unplanned"
            /\ ctl[c].seen = "missing" => kjob[ctl[c].kind].state # "absent"
            /\ ctl[c].seen = "complete" => kjob[ctl[c].kind].state = "complete"
        BY <1>0, <2>0, <2>1 DEF MayApply, Order, PhaseSound
      <3>1. CASE ctl'[c] = [ctl[c] EXCEPT !.phase = "creating"] /\ run.attempts = 1
        <4>1. /\ ctl'[c].kind = ctl[c].kind /\ ctl'[c].attempts = ctl[c].attempts /\ ctl'[c].seen = ctl[c].seen
          BY <1>0, <3>1 DEF ControllerState
        <4> QED BY <2>0, <3>0, <3>1, <4>1 DEF MaySend, MayApply
      <3>2. ASSUME NEW seen \in {"other", "active", "complete"},
                   ctl'[c] = [ctl[c] EXCEPT !.phase = "applying", !.seen = seen],
                   seen = "complete" => kjob[ctl[c].kind].state = "complete"
            PROVE  MaySend(c)' /\ MayApply(c)'
        <4>1. /\ ctl'[c].kind = ctl[c].kind /\ ctl'[c].attempts = ctl[c].attempts /\ ctl'[c].seen = seen
              /\ ctl'[c].phase = "applying"
          BY <1>0, <3>2 DEF ControllerState
        <4> QED BY <2>0, <3>0, <3>2, <4>1 DEF MaySend, MayApply
      <3> QED BY <1>0, <1>5, <2>1, <3>1, <3>2, Observed
    <2>2. CASE run.token # c
      <3>1. MayApply(c)'
        BY <2>0, <2>2 DEF MayApply
      <3>2. PICK memory \in {[ctl[c] EXCEPT !.phase = "creating"]} \cup
                       {[ctl[c] EXCEPT !.phase = "applying", !.seen = seen] : seen \in Observations} :
               ctl'[c] = memory
        <4>1. ctl \in [Controllers -> ControllerState]
          BY Kept
        <4>2. ASSUME NEW seen \in Observations, Seen(c, seen)
              PROVE  ctl'[c] = [ctl[c] EXCEPT !.phase = "applying", !.seen = seen]
          BY <4>1, <4>2 DEF Seen
        <4>3. ctl[c].kind \in Kinds /\ kjob \in [Kinds -> JobRow]
          BY <1>k, <2>0, Kept
        <4>4. \/ ctl' = [ctl EXCEPT ![c].phase = "creating"]
              \/ \E seen \in {"other", "missing_error", kjob[ctl[c].kind].state} :
                    (seen = "missing_error" \/ kjob[ctl[c].kind].state # "absent") /\ Seen(c, seen)
          BY <1>5 DEF ObserveJob
        <4> QED BY <4>1, <4>2, <4>3, <4>4 DEF Observations, JobRow, JobStates
      <3>3. ctl'[c].kind = ctl[c].kind
        BY <1>0, <3>2 DEF ControllerState
      <3> QED BY <1>0, <2>0, <3>1, <3>3 DEF MaySend
    <2> QED BY <2>1, <2>2
  <1>6. CASE RecreateJob(c)
    <2>0. /\ run' = run /\ ctl[c].phase = "creating" /\ Reconciling(c) /\ ctl[c].kind \in Kinds
          /\ ~Conflicting(ctl[c].kind, ctl[c].units)
      BY <1>0, <1>6, NoConflict DEF RecreateJob, Reconciling, database, Live
    <2>1. ctl'[c] = [ctl[c] EXCEPT !.phase = "applying", !.seen = "missing"]
      BY <1>6, <2>0, Kept DEF RecreateJob, Seen
    <2>2. /\ ctl'[c].kind = ctl[c].kind /\ ctl'[c].attempts = ctl[c].attempts /\ ctl'[c].seen = "missing"
          /\ ctl'[c].phase = "applying"
      BY <1>0, <2>1 DEF ControllerState
    <2>3. kjob'[ctl[c].kind].state # "absent"
      <3>1. CASE kjob[ctl[c].kind].state # "absent"
        BY <1>j, <2>0, <3>1
      <3>2. CASE kjob[ctl[c].kind].state = "absent"
        BY <1>6, <2>0, <3>2, Kept DEF RecreateJob, Created, NoJob
      <3> QED BY <3>1, <3>2
    <2> QED BY <1>0, <2>0, <2>2, <2>3 DEF MaySend, MayApply
  <1> QED BY <1>1, <1>2, <1>3, <1>4, <1>5, <1>6, LiveMemory
\* A reconciliation of a run that is over or cancelled.
LEMMA DeadRow ==
    ASSUME FormInv, EvidenceInv, Dead, NEW c \in Controllers, ReconcileApply(c)
    PROVE  run'.status = run.status \/ (run'.status = "cancelled" /\ (halted \/ run.status = "cancelled"))
  <1> DEFINE released == [run EXCEPT !.token = NoController, !.leaseLive = FALSE]
  <1>0. /\ run \in RunRow /\ Reconciling(c) /\ Memory(c)
    BY Kept DEF ReconcileApply, Reconciling, FormInv, MemoryInv
  <1>1. released \in RunRow /\ released.status = run.status
    BY <1>0 DEF RunRow
  <1>2. run' = IF run.token # c THEN run ELSE IF SnapshotHolds(c) THEN AppliedTo(released, c) ELSE released
    BY DEF ReconcileApply, TokenHeld
  <1> HIDE DEF released
  <1>3. CASE run.token # c \/ ~SnapshotHolds(c)
    BY <1>1, <1>2, <1>3
  <1>4. CASE run.token = c /\ SnapshotHolds(c)
    <2>1. run' = AppliedTo(released, c) /\ ctl[c].cleanup
      BY <1>0, <1>2, <1>4 DEF SnapshotHolds, Memory, Dead
    <2>2. ctl[c].seen \notin {"missing", "missing_error", "active", "complete", "failed"}
      BY <1>0, <2>1 DEF Memory
    <2>3. CASE ctl[c].seen \in {"clean", "unclean"}
      <3>1. PICK cleaned, status :
              /\ run' = [released EXCEPT !.cleaned = cleaned, !.status = status]
              /\ \/ status = released.status
                 \/ status = "cancelled" /\ (released.status \in ActiveStatuses \/ halted)
        BY <2>1, <2>3 DEF AppliedTo
      <3>2. run'.status = status
        BY <1>1, <3>1 DEF RunRow
      <3> QED BY <1>1, <3>1, <3>2 DEF Dead
    <2>4. CASE ctl[c].seen \notin {"clean", "unclean"}
      <3>1. run' = released
        BY <2>1, <2>2, <2>4 DEF AppliedTo
      <3> QED BY <1>1, <3>1
    <2> QED BY <2>3, <2>4
  <1> QED BY <1>3, <1>4

\* What becomes of the status while it is quiet.
LEMMA QuietStatus ==
    ASSUME FormInv, EvidenceInv, CauseInv, [Next]_vars, Quiet', ~Refused, MaximumDispatchAttempts >= 2
    PROVE  \/ run'.status \in {run.status, "running", "queued"}
           \/ run'.status = "cancelled" /\ halted
           \/ \E p \in pods : /\ Publish(p) /\ p.phase = "aggregated" /\ Live
                              /\ pods' = (pods \ {p}) \cup {[p EXCEPT !.phase = "recorded"]}
                              /\ run'.status = "succeeded"
  <1>0. /\ run \in RunRow /\ Quiet /\ Uneventful
        /\ run.status \in ActiveStatuses \cup TerminalStatuses
    BY Kept, QuietBefore DEF CauseInv, RunRow
  <1>1. ASSUME NEW c \in Controllers, Reserve(c)
        PROVE  run'.status = run.status
    BY <1>1, ReservedRow
  <1>2. ASSUME NEW c \in Controllers, RecordDispatchError(c)
        PROVE  FALSE
    BY <1>0, <1>2 DEF RecordDispatchError, Uneventful
  <1>3. ASSUME NEW c \in Controllers, ReconcileClaim(c)
        PROVE  run'.status = run.status
    <2>1. run' = [run EXCEPT !.token = c, !.leaseLive = TRUE]
      BY <1>3 DEF ReconcileClaim
    <2> QED BY <1>0, <2>1 DEF RunRow
  <1>4. ASSUME NEW c \in Controllers, ReconcileApply(c)
        PROVE  \/ run'.status \in {run.status, "running", "queued"}
               \/ run'.status = "cancelled" /\ halted
    <2>1. CASE Live
      <3>1. AppliedWell
        BY <1>4, <2>1, ReconciledRow
      <3> QED BY <3>1 DEF AppliedWell
    <2>2. CASE ~Live
      BY <1>0, <1>4, <2>2, DeadRow DEF Live, Uneventful
    <2> QED BY <2>1, <2>2
  <1>5. CASE LeaseExpires
    <2>1. run' = [run EXCEPT !.leaseLive = FALSE]
      BY <1>5 DEF LeaseExpires
    <2> QED BY <1>0, <2>1 DEF RunRow
  <1>6. ASSUME NEW p \in pods, LoadContext(p)
        PROVE  run'.status \in {run.status, "running"}
    BY <1>0, <1>6 DEF LoadContext, RunRow
  <1>7. ASSUME NEW p \in pods, StopsWhenCancelled(p) \/ LateHeartbeat(p)
        PROVE  run'.status = "cancelled" /\ halted
    BY <1>0, <1>7 DEF StopsWhenCancelled, LateHeartbeat, StopRequested, RunRow, Uneventful
  <1>8. ASSUME NEW p \in pods, Publish(p)
        PROVE  \/ run'.status = run.status
               \/ /\ p.phase = "aggregated" /\ Live
                  /\ pods' = (pods \ {p}) \cup {[p EXCEPT !.phase = "recorded"]}
                  /\ run'.status = "succeeded"
    <2>1. CASE run.status = "running"
      <3>1. /\ run' = [run EXCEPT !.status = "succeeded"] /\ Becomes(p, "recorded")
            /\ p.phase = "aggregated" /\ ~halted
        BY <1>8, <2>1 DEF Publish, StopRequested
      <3>2. Live
        BY <1>0, <2>1, <3>1 DEF Live, Dead, ActiveStatuses
      <3> QED BY <1>0, <3>1, <3>2 DEF Becomes, RunRow
    <2>2. CASE run.status # "running"
      BY <1>8, <2>2 DEF Publish
    <2> QED BY <2>1, <2>2
  <1>9. ASSUME NEW p \in pods, MarkFailed(p)
        PROVE  run'.status = "cancelled" /\ halted
    <2>1. p.phase = "failing" /\ run' = [run EXCEPT !.status = IF StopRequested THEN "cancelled" ELSE "failed"]
      BY <1>9 DEF MarkFailed
    <2>2. StopRequested
      <3> SUFFICES ASSUME ~StopRequested PROVE FALSE
        OBVIOUS
      <3>1. ~halted /\ run.status \in {"queued", "running", "succeeded"}
        BY <1>0 DEF StopRequested, Uneventful, ActiveStatuses, TerminalStatuses
      <3>2. CASE run.status = "succeeded"
        BY <1>0, <2>1, <3>1, <3>2 DEF Uneventful
      <3>3. CASE run.status \in {"queued", "running"}
        <4>1. Live
          BY <1>0, <3>1, <3>3 DEF Live, Dead, ActiveStatuses
        <4> QED BY <2>1, <4>1 DEF CauseInv, Order, PodsSound, PodSound
      <3> QED BY <3>1, <3>2, <3>3
    <2>3. run'.status = "cancelled"
      BY <1>0, <2>1, <2>2 DEF RunRow
    <2> QED BY <1>0, <2>2, <2>3 DEF StopRequested, Uneventful
  <1>10. run' = run \/ RunMoves
    BY RunWriters
  <1> QED BY <1>1, <1>2, <1>3, <1>4, <1>5, <1>6, <1>7, <1>8, <1>9, <1>10 DEF RunMoves

\* An observation fails only by an accident.
LEMMA ErrorSeen ==
    ASSUME FormInv, [Next]_vars, NEW c \in Controllers, ctl'[c].seen = "error", ctl[c].seen # "error"
    PROVE  Accident("request_error")
  <1>0. ctl \in [Controllers -> ControllerState] /\ TypeInv /\ NameInv
    BY DEF FormInv, TypeInv, FanOutTypeOK
  <1>1. ASSUME NEW d \in Controllers, NEW seen, Seen(d, seen), seen # "error"
        PROVE  FALSE
    <2>1. ctl' = [ctl EXCEPT ![d] = [ctl[d] EXCEPT !.phase = "applying", !.seen = seen]]
      BY <1>0, <1>1 DEF Seen
    <2>2. CASE d = c
      <3>1. ctl'[c] = [ctl[c] EXCEPT !.phase = "applying", !.seen = seen]
        BY <1>0, <2>1, <2>2
      <3> QED BY <1>0, <1>1, <3>1 DEF ControllerState
    <2>3. CASE d # c
      BY <1>0, <2>1, <2>3
    <2> QED BY <2>2, <2>3
  <1>2. ASSUME NEW d \in Controllers, ObserveJob(d)
        PROVE  FALSE
    <2>1. CASE ctl' = [ctl EXCEPT ![d].phase = "creating"]
      BY <1>0, <2>1 DEF ControllerState
    <2>2. ASSUME kjob[ctl[d].kind].state # "absent", Seen(d, kjob[ctl[d].kind].state)
          PROVE  FALSE
      <3>1. ctl[d].kind \in Kinds
        BY <1>2, KnownNames DEF ObserveJob, FormInv, NameInv
      <3>2. kjob[ctl[d].kind].state # "error"
        BY <3>1 DEF FormInv, TypeInv, JobRow, JobStates
      <3> QED BY <1>1, <2>2, <3>2
    <2>3. ~Seen(d, "other") /\ ~Seen(d, "missing_error")
      BY <1>1
    <2> QED BY <1>2, <2>1, <2>2, <2>3 DEF ObserveJob
  <1>3. ASSUME NEW d \in Controllers, RecreateJob(d)
        PROVE  FALSE
    BY <1>1, <1>3 DEF RecreateJob
  <1>4. ASSUME NEW d \in Controllers, ObserveFails(d) \/ RecreateJobFails(d)
        PROVE  Accident("request_error")
    BY <1>1, <1>4 DEF ObserveFails, RecreateJobFails
  <1>one. ASSUME NEW d \in Controllers, NEW memory, ctl' = [ctl EXCEPT ![d] = memory],
                 memory.seen \in {"none", ctl[d].seen, "clean", "unclean"}
          PROVE  FALSE
    BY <1>0, <1>one
  <1>5. ASSUME NEW d \in Controllers, Dispatch(d) \/ DispatchFails(d)
        PROVE  FALSE
    <2>1. PICK memory \in {Idle, [ctl[d] EXCEPT !.phase = "recording"]} : ctl' = [ctl EXCEPT ![d] = memory]
      BY <1>0, <1>5 DEF Dispatch, DispatchFails
    <2>2. memory.seen \in {"none", ctl[d].seen}
      BY <1>0, <2>1, IdleMemory DEF ControllerState
    <2> QED BY <1>one, <2>1, <2>2
  <1>6. ASSUME NEW d \in Controllers, RecordDispatchError(d) \/ ReconcileApply(d) \/ ControllerCrash(d)
        PROVE  FALSE
    <2>1. ctl' = [ctl EXCEPT ![d] = Idle]
      BY <1>6 DEF RecordDispatchError, ReconcileApply, ControllerCrash
    <2> QED BY <1>one, <2>1, IdleMemory
  <1>7. ASSUME NEW d \in Controllers, Reserve(d)
        PROVE  FALSE
    <2>1. CASE ctl' = ctl
      BY <2>1
    <2>2. ASSUME NEW units, ctl' = [ctl EXCEPT ![d] = [Idle EXCEPT !.phase = "dispatching", !.kind = NextKind,
                                                                    !.units = units]]
          PROVE  FALSE
      <3>1. [Idle EXCEPT !.phase = "dispatching", !.kind = NextKind, !.units = units].seen = "none"
        BY DEF Idle
      <3> QED BY <1>one, <2>2, <3>1
    <2> QED BY <1>7, <2>1, <2>2 DEF Reserve
  <1>8. ASSUME NEW d \in Controllers, ReconcileClaim(d)
        PROVE  FALSE
    <2>1. PICK memory : /\ ctl' = [ctl EXCEPT ![d] = memory]
                        /\ memory = [Idle EXCEPT !.phase = "observing", !.kind = run.jobName,
                                 !.units = run.units, !.status = run.status,
                                 !.halted = halted, !.attempts = run.attempts,
                                 !.cleanup = run.status \notin ActiveStatuses \/ halted,
                                 !.names = IF run.status \notin ActiveStatuses \/ halted
                                           THEN CleanupJobNames ELSE {}]
      BY <1>8 DEF ReconcileClaim
    <2>2. ctl'[d] = memory
      BY <1>0, <2>1
    <2>3. memory.seen = "none"
      BY <1>0, <1>8, <2>1, <2>2, ClaimMemory
    <2> QED BY <1>one, <2>1, <2>3
  <1>9. ASSUME NEW d \in Controllers, ObserveCleanup(d)
        PROVE  FALSE
    <2>1. PICK kind \in ctl[d].names, seen \in {"clean", "unclean"}, phase \in {"applying", ctl[d].phase} :
             ctl' = [ctl EXCEPT ![d].names = ctl[d].names \ {kind}, ![d].seen = seen, ![d].phase = phase]
      BY <1>9 DEF ObserveCleanup
    <2>2. ctl' = [ctl EXCEPT ![d] = [ctl[d] EXCEPT !.names = ctl[d].names \ {kind}, !.seen = seen, !.phase = phase]]
      BY <1>0, <2>1
    <2>3. [ctl[d] EXCEPT !.names = ctl[d].names \ {kind}, !.seen = seen, !.phase = phase].seen = seen
      BY <1>0 DEF ControllerState
    <2> QED BY <1>one, <2>2, <2>3
  <1>10. ASSUME NEW p \in pods, PodStep(p)
         PROVE  FALSE
    BY <1>10 DEF PodStep, LoadContext, StopsWhenCancelled, LateHeartbeat, RecordReceipt, Aggregate, Publish,
       PodSucceeds, HandlerRaises, MarkFailed, PodKilled, PodTerminated, PodUnchanged, ClusterUnchanged,
       control
  <1>11. ASSUME NEW kind \in Kinds, ClusterStep(kind)
         PROVE  FALSE
    BY <1>11 DEF ClusterStep, StartPod, JobRemoved, JobVanishes, ClusterUnchanged, control
  <1>12. CASE \/ ReserveOther \/ ReleaseOther \/ CancelMission \/ LeaseExpires \/ UNCHANGED vars
              \/ \E d \in Controllers : TakeOver(d) \/ TickEnds(d)
    BY <1>12 DEF ReserveOther, ReleaseOther, CancelMission, LeaseExpires, TakeOver, TickEnds, vars, control
  <1> QED BY <1>2, <1>3, <1>4, <1>5, <1>6, <1>7, <1>8, <1>9, <1>10, <1>11, <1>12 DEF Next, ControllerStep

\* While it is quiet nothing fails.
LEMMA UneventfulNext ==
    ASSUME FormInv, EvidenceInv, EnvelopeInv, CauseInv, [Next]_vars, Quiet', ~Refused,
           MaximumDispatchAttempts >= 2
    PROVE  Uneventful'
  <1>0. /\ Quiet /\ Uneventful /\ run \in RunRow /\ TypeInv /\ NameInv /\ pods \subseteq PodState
        /\ ctl \in [Controllers -> ControllerState]
    BY Kept, QuietBefore DEF CauseInv, FormInv
  <1>h. halted => halted'
    BY OtherWriters DEF CancelMission
  <1>1. run'.status # "failed" /\ (run'.status = "cancelled" => halted')
    BY <1>0, <1>h, QuietStatus DEF Uneventful
  <1>2. ASSUME NEW c \in Controllers
        PROVE  ctl'[c].phase # "recording" /\ ctl'[c].seen # "error"
    <2>1. ctl'[c].seen # "error"
      BY <1>0, ErrorSeen, NoAccident DEF Uneventful
    <2>2. ctl[c].phase # "recording"
      BY <1>0 DEF Uneventful
    <2>3. CASE ctl[c].phase = "dispatching"
      <3>1. ~Conflicting(ctl[c].kind, ctl[c].units)
        BY <1>0, <2>3, NoConflict
      <3>2. {"request_error", "lost_create"} \cap accidents' = {}
        BY DEF Quiet
      <3> SUFFICES ASSUME ctl'[c].phase = "recording" PROVE FALSE
        BY <2>1
      <3>3. \/ ctl'[c] = ctl[c] \/ ctl'[c] = Idle \/ Reserve(c) \/ ReconcileClaim(c) \/ ObserveCleanup(c)
        BY <1>0, <2>3, <3>1, <3>2, AllRemember DEF Remembers
      <3> QED BY <2>3, <3>3, IdleMemory DEF Reserve, ReconcileClaim, ObserveCleanup
    <2>4. CASE ctl[c].phase # "dispatching"
      <3>1. Remembers(c)
        BY <1>0, AllRemember
      <3>2. CASE /\ Reserve(c) /\ ~Refused
                 /\ run'.phase = NextKind /\ run'.dispatched /\ run'.jobName = NextKind
                 /\ ctl'[c] = [Idle EXCEPT !.phase = "dispatching", !.kind = NextKind, !.units = run'.units]
        BY <2>1, <3>2 DEF Idle
      <3>3. CASE /\ ReconcileClaim(c)
                 /\ ctl'[c] = [Idle EXCEPT !.phase = "observing", !.kind = run.jobName,
                                 !.units = run.units, !.status = run.status,
                                 !.halted = halted, !.attempts = run.attempts,
                                 !.cleanup = run.status \notin ActiveStatuses \/ halted,
                                 !.names = IF run.status \notin ActiveStatuses \/ halted
                                           THEN CleanupJobNames ELSE {}]
        BY <1>0, <2>1, <3>3, ClaimMemory
      <3>4. ASSUME NEW kind \in ctl[c].names, NEW seen \in {"clean", "unclean"},
                   NEW phase \in {"observing", "applying"},
                   ctl'[c] = [ctl[c] EXCEPT !.names = ctl[c].names \ {kind}, !.seen = seen, !.phase = phase]
            PROVE  ctl'[c].phase # "recording"
        BY <1>0, <3>4 DEF ControllerState
      <3>5. CASE ctl'[c] = [ctl[c] EXCEPT !.phase = "creating"]
        BY <1>0, <2>1, <3>5 DEF ControllerState
      <3>6. ASSUME NEW seen \in Observations \ {"clean", "unclean"},
                   ctl'[c] = [ctl[c] EXCEPT !.phase = "applying", !.seen = seen]
            PROVE  ctl'[c].phase # "recording"
        BY <1>0, <3>6 DEF ControllerState
      <3>7. CASE ctl'[c] = ctl[c] \/ ctl'[c] = Idle
        BY <2>1, <2>2, <3>7, IdleMemory
      <3>8. CASE /\ ObserveCleanup(c)
                 /\ \E kind \in ctl[c].names, seen \in {"clean", "unclean"}, phase \in {"observing", "applying"} :
                      ctl'[c] = [ctl[c] EXCEPT !.names = ctl[c].names \ {kind}, !.seen = seen, !.phase = phase]
        BY <2>1, <3>4, <3>8
      <3>9. CASE \E seen \in Observations \ {"clean", "unclean"} :
                    ctl'[c] = [ctl[c] EXCEPT !.phase = "applying", !.seen = seen]
        BY <2>1, <3>6, <3>9
      <3> QED BY ZenonT(40), <2>4, <3>1, <3>2, <3>3, <3>5, <3>7, <3>8, <3>9 DEF Remembers
    <2> QED BY <2>3, <2>4
  <1>3. ASSUME run'.status = "succeeded", ~halted', NEW p \in pods'
        PROVE  p.phase \in {"starting", "recorded"}
    <2>0. ~halted
      BY <1>3, <1>h
    <2>1. CASE run.status = "succeeded"
      <3>1. \A q \in pods : q.phase \in {"starting", "recorded"}
        BY <1>0, <2>0, <2>1 DEF Uneventful
      <3>2. ASSUME NEW q \in pods, Moves(q, p)
            PROVE  FALSE
        BY <2>1, <3>1, <3>2 DEF Moves, ActiveStatuses
      <3>3. ASSUME NEW kind \in Kinds, NEW index \in Shards, StartPod(kind, index), p \notin pods
            PROVE  p.phase = "starting"
        BY <1>3, <3>3 DEF StartPod
      <3>4. PodMoves
        BY <1>0, ClusterMoves
      <3> QED BY <1>3, <3>1, <3>2, <3>3, <3>4 DEF PodMoves
    <2>2. CASE run.status # "succeeded"
      <3>1. PICK q \in pods : /\ q.phase = "aggregated" /\ Live
                              /\ pods' = (pods \ {q}) \cup {[q EXCEPT !.phase = "recorded"]}
        BY <1>3, <2>2, QuietStatus
      <3>2. PodsSound
        BY <3>1 DEF CauseInv, Order
      <3>3. \A r \in pods : r.index = 0
        <4>1. PodSound(q) /\ q.kind = "finalizer" /\ run.phase = "finalizer"
          BY <3>1, <3>2 DEF PodsSound, PodSound
        <4> QED BY <3>2, <4>1 DEF PodsSound, PodSound, Indexes
      <3>4. pods = {q}
        BY <3>2, <3>3 DEF PodsSound
      <3>5. p = [q EXCEPT !.phase = "recorded"]
        BY <1>3, <3>1, <3>4
      <3> QED BY <1>0, <3>5 DEF PodState
    <2> QED BY <2>1, <2>2
  <1> QED BY <1>1, <1>2, <1>3 DEF Uneventful

\* Every step keeps the invariant.
LEMMA CauseNext ==
    ASSUME FormInv, EvidenceInv, EnvelopeInv, CauseInv, [Next]_vars, MaximumDispatchAttempts >= 2
    PROVE  CauseInv'
  <1>1. Quiet' /\ ~Refused' => Uneventful'
    BY QuietBefore, UneventfulNext
  <1>2. Live' => (Order /\ Workers)'
    BY OrderNext, WorkersNext
  <1> QED BY <1>1, <1>2 DEF CauseInv

\* A run that failed has a cause for it: its plan was refused, or a Pod, a Job or a
\* request failed. Whatever workers die between the reservation of a phase and its
\* Job, are replaced in the middle of a tick or hold a lease that ran out, a phase
\* uses up two attempts at most, so two must be granted.
THEOREM FailureCorrect == MaximumDispatchAttempts >= 2 => (Spec => []FailureHasCause)
  <1> SUFFICES ASSUME MaximumDispatchAttempts >= 2 PROVE Spec => []FailureHasCause
    OBVIOUS
  <1>1. Init => CauseInv
    <2> SUFFICES ASSUME Init PROVE CauseInv
      OBVIOUS
    <2>1. /\ run.status = "queued" /\ run.phase = "unplanned" /\ ~run.dispatched /\ run.jobName = "none"
          /\ run.attempts = 0 /\ run.token = NoController /\ pods = {} /\ NoController \notin Controllers
          /\ \A c \in Controllers : ctl[c] = Idle
          /\ \A kind \in Kinds : kjob[kind] = NoJob
      BY FanOutAssumption DEF Init
    <2>2. NoJob.state = "absent" /\ ~NoJob.deleting /\ NoJob.done = {} /\ NoJob.incarnation = 0
      BY DEF NoJob
    <2>3. Uneventful
      BY <2>1, IdleMemory DEF Uneventful
    <2>4. JobsSound /\ PodsSound /\ DoneSound /\ PhaseSound /\ AttemptsSound
      BY <2>1, <2>2 DEF JobsSound, PodsSound, DoneSound, PhaseSound, AttemptsSound, Kinds
    <2>5. Workers
      BY <2>1, IdleMemory DEF Workers, MaySend, MayApply
    <2> QED BY <2>3, <2>4, <2>5 DEF CauseInv, Order
  <1>2. FormInv /\ EvidenceInv /\ EnvelopeInv /\ CauseInv /\ [Next]_vars => CauseInv'
    BY CauseNext
  <1>3. CauseInv => FailureHasCause
    BY DEF CauseInv, FailureHasCause, Uneventful, Quiet
  <1> QED BY <1>1, <1>2, <1>3, FormCorrect, EvidenceHolds, EnvelopeHolds, PTL DEF Spec

===============================================================================
