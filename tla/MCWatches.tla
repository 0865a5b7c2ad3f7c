----------------------------- MODULE MCWatches -----------------------------
\* Watches on /a, /a/b, /a/b/c and /ab, with nested and disjoint target paths,
\* one of them also spelled /a/.
EXTENDS Watches

A == <<"a">>
B == <<"a", "/", "b">>
C == <<"a", "/", "b", "/", "c">>
AB == <<"a", "b">>

Letters == {"a", "b", "c", "/"}
FourDirs == {A, B, C, AB}
ThreeDirs == {A, B, AB}
Plain(d) == [dir |-> d, slash |-> FALSE]
Slashed(d) == [dir |-> d, slash |-> TRUE]
SomeTargets == {{Plain(B)}, {Plain(A), Plain(B)}, {Plain(A), Plain(AB)}, {Slashed(A), Plain(AB)}}
=============================================================================
