---------------------------- MODULE MCProxyCache ----------------------------
EXTENDS ProxyCache, TLC

CONSTANTS r1, r2

OneReader  == {r1}
TwoReaders == {r1, r2}
MCSymmetry == Permutations(TwoReaders)

MCNames == {"d", "e", "f"}

\* A directory d with a file f, and what Finder asks of them.
d == <<"d">>
f == <<"d", "f">>
ListingOfD  == {[path |-> d, depth |-> 1]}
TwoListings == ListingOfD \cup {[path |-> f, depth |-> 0]}

PutF  == [op |-> "put", from |-> f, to |-> f]
MoveD == [op |-> "move", from |-> d, to |-> <<"e">>]

PutAndMove == {PutF, MoveD}
OnePut     == {PutF}
=============================================================================
