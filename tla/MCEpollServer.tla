---------------------------- MODULE MCEpollServer ----------------------------
\* Instances of EpollServer for TLC.
EXTENDS EpollServer, TLC

\* Connections are interchangeable.
Symmetry == Permutations(Clients)
==============================================================================
