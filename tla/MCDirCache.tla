----------------------------- MODULE MCDirCache -----------------------------
EXTENDS DirCache, TLC

CONSTANTS r1, r2, i1, m1

OneReader   == {r1}
TwoReaders  == {r1, r2}
Put         == {i1}
Mkdir       == {m1}
None        == {}
MCSymmetry  == Permutations(TwoReaders)
=============================================================================
