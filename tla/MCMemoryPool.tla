---------------------------- MODULE MCMemoryPool ----------------------------
\* MemoryPool with two workers of the daemon and a client that holds several
\* buffers at once, as the pool's unit tests do.
EXTENDS MemoryPool, TLC

CONSTANTS w1, w2, client, b1, b2, b3, b4, b5, b6

WorkersAndClient == {w1, w2, client}
SixBuffers == {b1, b2, b3, b4, b5, b6}
OneOrFour == w1 :> 1 @@ w2 :> 1 @@ client :> 4

Symmetry == Permutations(Buffers) \cup Permutations({w1, w2})
=============================================================================
