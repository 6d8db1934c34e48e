----------------------------- MODULE MCChunkRead -----------------------------
EXTENDS ChunkRead, TLC

CONSTANTS r1, r2, v1, v2

OneReader  == {r1}
TwoReaders == {r1, r2}
TwoVersions == {v1, v2}

\* Chunks of two bytes: both versions begin with a full chunk, the second one
\* ends with a short one.
MCSize == (v1 :> 2) @@ (v2 :> 3)

\* Reads from the beginning, across two chunks, and behind the end of the shorter
\* version.
MCPositions == {0, 1, 3}
MCCounts    == {2}
MCSymmetry  == Permutations(TwoReaders)
=============================================================================
