---------------------------- MODULE MCPollServer -----------------------------
\* Instances of PollServer for TLC: every constant is a number of the cfg.
EXTENDS PollServer
==============================================================================
