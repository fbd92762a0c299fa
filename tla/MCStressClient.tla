--------------------------- MODULE MCStressClient ----------------------------
\* Instances of StressClient for TLC: every constant is a number of the cfg.
EXTENDS StressClient
==============================================================================
