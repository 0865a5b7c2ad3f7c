--------------------------- MODULE MCCompressTask ---------------------------
\* CompressTask on small instances: one or two workers, up to four versions.
EXTENDS CompressTask, TLC

CONSTANTS w1, w2

OneWorker == {w1}
TwoWorkers == {w1, w2}

\* Size classes of the versions of the original, in the order of the edits.
OneShotSizes == <<2, 2, 1>>     \* edited, then below the threshold
EverySize == <<3, 3, 2, 1>>     \* streamed twice, one shot, too small
EmptiedOneShot == <<2, 0, 2>>

WorkerSymmetry == Permutations(Workers)
=============================================================================
