----------------------------- MODULE MCMonitor -----------------------------
\* Monitor on small instances.
EXTENDS Monitor, TLC

CONSTANT c1

OneCookie == {c1}
=============================================================================
