---------------------------- MODULE MCThreadPool ----------------------------
\* ThreadPool on small instances: two workers, three tasks.
EXTENDS ThreadPool, TLC

CONSTANTS w1, w2, t1, t2, t3

TwoWorkers == {w1, w2}
ThreeTasks == {t1, t2, t3}

\* Two tasks of one priority, one above them.
MixedPriority == t1 :> 1 @@ t2 :> 1 @@ t3 :> 2
=============================================================================
