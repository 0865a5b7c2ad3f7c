--------------------------- MODULE MCRateLimiter ---------------------------
\* RateLimiter: two callers, two grants in a window of two ticks.
EXTENDS RateLimiter, TLC

CONSTANTS c1, c2

TwoCallers == {c1, c2}

\* At most MaxGrants grants between resets.
CONSTANT MaxGrants
FewGrants == Len(times) <= MaxGrants

CallerSymmetry == Permutations(Threads)
=============================================================================
