------------------------------- MODULE MCRename -------------------------------
EXTENDS Rename, TLC

CONSTANTS d1, d2, n1, n2, f1, f2, m1, m2

TwoDirs  == {d1, d2}
TwoNames == {n1, n2}
OneDir   == {d1}

\* One file is there, and one is uploaded to its path.
TwoFiles == {f1, f2}
OneFile  == {f2}
OneHome  == (f1 :> <<d1, n1>> @@ f2 :> <<d1, n1>>)

TwoMoves == {m1, m2}
OneMove  == {m1}

MCSymmetry == Permutations(TwoMoves)
=============================================================================
