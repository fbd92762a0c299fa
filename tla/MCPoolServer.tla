---------------------------- MODULE MCPoolServer -----------------------------
\* Instances of PoolServer for TLC: workers and descriptors are model values.
EXTENDS PoolServer
==============================================================================
