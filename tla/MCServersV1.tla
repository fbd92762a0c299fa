---------------------------- MODULE MCServersV1 ------------------------------
\* Instances for TLC of the poll server and of the first select server, which
\* share nothing: at the start one of them is chosen, and the other keeps its
\* initial state.
EXTENDS PollServer

CONSTANTS      \* the sizes and bounds of the select server
    SelMsgCap, SelSendCap, SelMaxConnections, SelMaxFd, SelMaxPeers, SelMaxSent

VARIABLES
    server,    \* the server that is started: poll or select
    selClient, master_read, master_write, readfds, writefds, max_fds,
    selPc, selI, selReceived, taken, selPeers, selBacklog, selSock, selNewlines,
    selOverflowed

selVars ==
    <<selClient, master_read, master_write, readfds, writefds, max_fds, selPc, selI,
      selReceived, taken, selPeers, selBacklog, selSock, selNewlines, selOverflowed>>

\* A peer on the first descriptor number sends up to two bytes, on another none.
FewSends == [f \in 1..3 |-> IF f = 1 THEN 2 ELSE 0]

Sel == INSTANCE SelectServerV1 WITH
         MsgCap <- SelMsgCap, SendCap <- SelSendCap, MAX_CONNECTIONS <- SelMaxConnections,
         MaxFd <- SelMaxFd, MaxPeers <- SelMaxPeers, MaxSent <- SelMaxSent,
         client <- selClient, pc <- selPc, i <- selI, received <- selReceived,
         peers <- selPeers, backlog <- selBacklog, sock <- selSock,
         newlines <- selNewlines, overflowed <- selOverflowed

ASSUME SelectAssumption == {SelMsgCap, SelSendCap} \subseteq Nat /\ Sel!Sizes

ServersInit ==
    /\ server \in {"poll", "select"}
    /\ Init /\ (server # "poll" => newlines = {})
    /\ Sel!Init

ServersNext ==
    \/ server = "poll" /\ Next /\ UNCHANGED <<server, selVars>>
    \/ server = "select" /\ Sel!Next /\ UNCHANGED <<server, vars>>

\* The thread of the server that is started runs; nothing is assumed of peers.
ServersSpec ==
    /\ ServersInit /\ [][ServersNext]_<<server, vars, selVars>>
    /\ WF_vars(server = "poll" /\ Server)
    /\ WF_selVars(server = "select" /\ Sel!Server)

\* Of SelectServerV1: the buffers and indices stay in their bounds, the array, the
\* sets and max_fds agree, and no call waits that need not (lines 40-125, 166-221).
SelInv == Sel!Inv

\* Of SelectServerV1: each byte is in one place, in order, also when the number of
\* its connection was another's before (lines 40-88, 101-107, 176-177, 196-199).
SelConserved == Sel!Conserved

\* Of SelectServerV1: what was sent is received or the connection closed, unless
\* one send waits for ever for a peer that does not read (line 95).
SelReadUnlessBlocked == Sel!ReadUnlessBlocked
==============================================================================
