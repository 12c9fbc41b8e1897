-------------------------- MODULE MCRangeScheduler --------------------------
EXTENDS RangeScheduler

CONSTANTS k1, k2, k3

\* One range is as large as the evictable quarter of the memory and another.
RangeSize == [k \in Keys |-> IF k = k2 THEN 2 ELSE 1]
=============================================================================
