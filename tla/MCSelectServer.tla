--------------------------- MODULE MCSelectServer ----------------------------
\* Instances of SelectServer for TLC; a peer sends up to three bytes on the first
\* descriptor number, whichever connection has it, and none on the others.
EXTENDS SelectServer

FirstSends == [f \in Fds |-> IF f = 1 THEN 3 ELSE 0]
==============================================================================
