----------------------------- MODULE MCCacheWalk -----------------------------
EXTENDS CacheWalk

CONSTANT c1

\* Folders "/a", "/ab" and "/ab/x" and the file "/f"; "/a" is a string prefix
\* of "/ab" and of "/ab/x".
MCDirs     == {<<"a">>, <<"ab">>, <<"ab", "x">>}
MCPaths    == MCDirs \cup {<<"f">>}
MCInitial  == << <<"ab">>, <<"ab", "x">> >>
MCPrefixes == {<<"a", "ab">>}
MCLong     == {Root}
One        == {c1}
=============================================================================
