---------------------------- MODULE MCLifecycle ----------------------------
\* The daemon on a small instance: its four threads and one task.
EXTENDS Lifecycle

CONSTANT t1

FourThreads == {"main", "scan", "monitor", "worker"}
OneTask == {t1}
=============================================================================
