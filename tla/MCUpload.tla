------------------------------ MODULE MCUpload ------------------------------
EXTENDS Upload, TLC

CONSTANTS p1, p2, p3

TwoPuts   == {p1, p2}
ThreePuts == {p1, p2, p3}
MCSymmetry2 == Permutations(TwoPuts)
MCSymmetry3 == Permutations(ThreePuts)

Empty == [size |-> "empty", md5 |-> "m0"]
Small == [size |-> "small", md5 |-> "m1"]
Large == [size |-> "large", md5 |-> "m2"]

AllBodies     == {Empty, Small, Large}
ContentBodies == {Small, Large}
=============================================================================
