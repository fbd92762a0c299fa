---------------------------- MODULE MCEchoSession ----------------------------
\* Instances of EchoSession for TLC: every constant is a number of the cfg.
EXTENDS EchoSession
==============================================================================
