---------------------------- MODULE StressClient -----------------------------
(***************************************************************************)
(* The load generator, socket_test/stress_test_client.c: one thread polls  *)
(* client_count connections; each sends requests_per_client lines, one at  *)
(* a time, and checks that the line it gets back is the line it sent.      *)
(*                                                                         *)
(* The bytes of a connection's requests are numbered 1, 2, 3, ...; each    *)
(* request has ReqLen of them and the last is its '\n'.  A server may send *)
(* other bytes: a Newline or Junk.  prepare_request cannot fail (its line  *)
(* is at most 29 bytes of 256), and EINTR inside send and recv only        *)
(* repeats the call.  Times, byte counts and the progress bar are left out.*)
(***************************************************************************)
EXTENDS Integers, Sequences, FiniteSetsExt

CONSTANTS
    client_count,
    requests_per_client,
    ReqLen,      \* bytes of a request
    RecvCap,     \* sizeof(recv_buf)
    NetCap,      \* bytes the network holds on their way to the server
    MaxNoise,    \* bound: bytes the server sends that nobody sent it
    MaxSamples   \* latency samples kept at most (1000000)

ASSUME StressAssumption ==
    /\ client_count \in Nat \ {0} /\ requests_per_client \in Nat \ {0}
    /\ ReqLen \in Nat /\ ReqLen >= 2 /\ RecvCap \in Nat /\ RecvCap >= ReqLen
    /\ NetCap \in Nat \ {0} /\ MaxNoise \in Nat /\ MaxSamples \in Nat

Clients == 0..(client_count - 1)
total_requests == client_count * requests_per_client
latency_capacity == IF total_requests > MaxSamples THEN MaxSamples ELSE total_requests

Newline  == 0
Junk     == requests_per_client * ReqLen + 1
ByteSet  == 0..Junk
IsNewline(b) == b # Junk /\ b % ReqLen = 0

VARIABLES
    pc,             \* connect, check, poll, handle, next, report, exit
    i,              \* the index of the loop that runs
    stop_requested,
    poll_failed,    \* history: poll returned an error
    exit_success,   \* the exit status
    client,         \* the Client structs; open: fd is not -1
    next_sequence,
    revents,        \* pfds[i].revents
    completed, failed, latency_count,   \* Stats
    net             \* per connection, what the kernel and the server did

loopVars  == <<pc, i>>
runVars   == <<stop_requested, poll_failed, exit_success>>
statVars  == <<completed, failed, latency_count>>
vars == <<loopVars, runVars, client, next_sequence, revents, statVars, net>>

Init ==
    /\ pc = "connect" /\ i = 0
    /\ stop_requested = FALSE /\ poll_failed = FALSE /\ exit_success = FALSE
    /\ client = [k \in Clients |->
                    [open |-> FALSE, state |-> "connecting", send_offset |-> 0,
                     recv_buf |-> <<>>, request_completed |-> 0]]
    /\ next_sequence = [k \in Clients |-> 0]
    /\ revents = [k \in Clients |-> {}]
    /\ completed = 0 /\ failed = 0 /\ latency_count = 0
    /\ net = [k \in Clients |-> [link |-> "none", echoed |-> 0, inq |-> <<>>, noise |-> 0]]

-----------------------------------------------------------------------------
(* The network and the server.                                             *)

\* Bytes client k has sent in all.
Sent(k) == IF next_sequence[k] = 0 THEN 0
           ELSE (next_sequence[k] - 1) * ReqLen + client[k].send_offset

Net(k, n) ==
    /\ net' = [net EXCEPT ![k] = n]
    /\ UNCHANGED <<loopVars, runVars, client, next_sequence, revents, statVars>>

ConnectEnds(k) ==
    /\ client[k].open /\ net[k].link = "syn"
    /\ \E l \in {"up", "refused"} : Net(k, [net[k] EXCEPT !.link = l])

Echo(k) ==
    /\ client[k].open /\ net[k].link = "up"
    /\ net[k].echoed < Sent(k)
    /\ Net(k, [net[k] EXCEPT !.echoed = @ + 1, !.inq = Append(@, net[k].echoed + 1)])

Noise(k) ==
    /\ client[k].open /\ net[k].link = "up"
    /\ MapThenSumSet(LAMBDA j : net[j].noise, Clients) < MaxNoise
    /\ \E b \in {Newline, Junk} :
         Net(k, [net[k] EXCEPT !.noise = @ + 1, !.inq = Append(@, b)])

\* The server closes its end, or the connection is reset.
Lose(k) ==
    /\ client[k].open /\ net[k].link \in {"up", "fin"}
    /\ \E l \in {"fin", "rst"} \ {net[k].link} : Net(k, [net[k] EXCEPT !.link = l])

\* sigint_handler, at any time.
Interrupt ==
    /\ ~stop_requested /\ pc # "exit"
    /\ stop_requested' = TRUE
    /\ UNCHANGED <<loopVars, poll_failed, exit_success, client, next_sequence, revents,
                   statVars, net>>

-----------------------------------------------------------------------------
(* Steps on one Client.                                                    *)

\* prepare_request; next_sequence goes up with it.
Prepared(c) == [c EXCEPT !.send_offset = 0, !.recv_buf = <<>>, !.state = "writing"]

CloseClient(c) == [c EXCEPT !.open = FALSE, !.state = "done"]

\* The bytes of send_buf.
Request(k) == [p \in 1..ReqLen |-> (next_sequence[k] - 1) * ReqLen + p]

\* The next index of the loop over the clients, and label after the last one.
Advance(label) ==
    IF i + 1 = client_count THEN pc' = label /\ i' = 0 ELSE i' = i + 1 /\ UNCHANGED pc

Fail ==
    /\ failed' = failed + 1
    /\ client' = [client EXCEPT ![i] = CloseClient(@)]
    /\ Advance("check")
    /\ UNCHANGED <<next_sequence, completed, latency_count>>

-----------------------------------------------------------------------------
(* main: the connections.                                                  *)

\* Mutated form of CountRefused: a failure is not counted.
CountRefused_Not == UNCHANGED failed

CountRefused == failed' = failed + 1

\* reconnect_client: the connection is being made, or counts as one failure.
Reconnect ==
    /\ pc = "connect"
    /\ \/ /\ client' = [client EXCEPT ![i].open = TRUE, ![i].state = "connecting"]
          /\ net' = [net EXCEPT ![i].link = "syn"]
          /\ UNCHANGED failed
       \/ /\ client' = [client EXCEPT ![i].state = "failed"]
          /\ CountRefused
          /\ UNCHANGED net
    /\ Advance("check")
    /\ UNCHANGED <<runVars, next_sequence, revents, completed, latency_count>>

-----------------------------------------------------------------------------
(* main: the loop.                                                         *)

\* Mutated form of AllAccounted: the last request is not waited for.
AllAccounted_OffByOne == completed + failed + 1 >= total_requests

\* The loop's condition on the counters.
AllAccounted == completed + failed >= total_requests

Leave ==
    /\ pc = "check"
    /\ stop_requested \/ AllAccounted
    /\ pc' = "report"
    /\ UNCHANGED <<i, runVars, client, next_sequence, revents, statVars, net>>

\* An open client found in CLIENT_DONE would get its next request here.
LeftDone == {k \in Clients : /\ client[k].open /\ client[k].state = "done"
                             /\ next_sequence[k] < requests_per_client}

Build ==
    /\ pc = "check"
    /\ ~stop_requested /\ ~AllAccounted
    /\ client' = [k \in Clients |-> IF k \in LeftDone THEN Prepared(client[k]) ELSE client[k]]
    /\ next_sequence' =
         [k \in Clients |-> next_sequence[k] + IF k \in LeftDone THEN 1 ELSE 0]
    /\ revents' = [k \in Clients |-> {}]
    /\ pc' = "poll"
    /\ UNCHANGED <<i, runVars, statVars, net>>

\* What poll reports for a client, given the events asked for in its state.
PollOut(k) == Sent(k) - net[k].echoed < NetCap
Revents(k) ==
    IF ~client[k].open THEN {}
    ELSE (IF net[k].link \in {"rst", "refused"} THEN {"ERR", "HUP"} ELSE {})
      \cup (CASE client[k].state = "connecting" ->
                   IF net[k].link # "syn" THEN {"OUT"} ELSE {}
              [] client[k].state = "writing" ->
                   IF net[k].link = "rst" \/ PollOut(k) THEN {"OUT"} ELSE {}
              [] client[k].state = "reading" ->
                   IF net[k].link # "up" \/ net[k].inq # <<>> THEN {"IN"} ELSE {}
              [] OTHER -> {})

\* poll returns with what is ready, which is nothing after the timeout.
Poll ==
    /\ pc = "poll"
    /\ revents' = [k \in Clients |-> Revents(k)]
    /\ pc' = "handle" /\ i' = 0
    /\ UNCHANGED <<runVars, client, next_sequence, statVars, net>>

PollInterrupted ==
    /\ pc = "poll" /\ stop_requested
    /\ pc' = "check"
    /\ UNCHANGED <<i, runVars, client, next_sequence, revents, statVars, net>>

PollFails ==
    /\ pc = "poll"
    /\ pc' = "report"
    /\ poll_failed' = TRUE
    /\ UNCHANGED <<i, stop_requested, exit_success, client, next_sequence, revents,
                   statVars, net>>

-----------------------------------------------------------------------------
(* main: client i, in the order of the array.                              *)

Handling == pc = "handle" /\ client[i].open /\ revents[i] # {}

Skip ==
    /\ pc = "handle"
    /\ ~client[i].open \/ revents[i] = {}
    /\ Advance("check")
    /\ UNCHANGED <<runVars, client, next_sequence, revents, statVars, net>>

\* handle_connect, then the first request.
Connected ==
    /\ Handling /\ client[i].state = "connecting"
    /\ IF net[i].link \in {"refused", "rst"}
       THEN Fail
       ELSE /\ client' = [client EXCEPT ![i] = Prepared(@)]
            /\ next_sequence' = [next_sequence EXCEPT ![i] = @ + 1]
            /\ Advance("check")
            /\ UNCHANGED statVars
    /\ UNCHANGED <<runVars, revents, net>>

Fatal ==
    /\ Handling /\ client[i].state # "connecting"
    /\ {"ERR", "HUP"} \cap revents[i] # {}
    /\ Fail
    /\ UNCHANGED <<runVars, revents, net>>

Quiet == {"ERR", "HUP"} \cap revents[i] = {}

\* Mutated form of StateAfterSend: a request sent in full changes nothing.
StateAfterSend_Same(sentAll) == "writing"

StateAfterSend(sentAll) == IF sentAll THEN "reading" ELSE "writing"

\* handle_send sends what the network takes; the error of a reset is a failure.
HandleSend ==
    /\ Handling /\ Quiet /\ client[i].state = "writing"
    /\ IF net[i].link = "rst"
       THEN Fail
       ELSE LET room == NetCap - (Sent(i) - net[i].echoed)
                left == ReqLen - client[i].send_offset
                n    == IF left <= room THEN left ELSE room
            IN  /\ client' = [client EXCEPT ![i].send_offset = @ + n,
                                            ![i].state = StateAfterSend(n = left)]
                /\ Advance("check")
                /\ UNCHANGED <<next_sequence, statVars>>
    /\ UNCHANGED <<runVars, revents, net>>

-----------------------------------------------------------------------------
(* handle_recv: its loop ends with a line, a full buffer, or a recv that     *)
(* returns no data.  taken is all that the calls of recv return.            *)

Space(k) == RecvCap - Len(client[k].recv_buf)
Taken(k) == SubSeq(net[k].inq, 1, IF Len(net[k].inq) <= Space(k) THEN Len(net[k].inq)
                                                                ELSE Space(k))
Buffer(k)   == client[k].recv_buf \o Taken(k)
LineEnds(k) == {p \in 1..Len(Buffer(k)) : IsNewline(Buffer(k)[p])}

RecvConsumes ==
    net' = [net EXCEPT ![i].inq = SubSeq(@, Len(Taken(i)) + 1, Len(@))]

Reading == Handling /\ Quiet /\ client[i].state = "reading"

\* Mutated form of RecordLatency: the array of samples is not checked for room.
RecordLatency_NoCapacity == latency_count' = latency_count + 1

RecordLatency ==
    latency_count' = IF latency_count < latency_capacity THEN latency_count + 1
                     ELSE latency_count

\* The first line is the request: the request is completed, and what came
\* behind it moves to the front of recv_buf.
RecvAnswer ==
    /\ Reading
    /\ LineEnds(i) # {}
    /\ SubSeq(Buffer(i), 1, Min(LineEnds(i))) = Request(i)
    /\ RecvConsumes
    /\ client' = [client EXCEPT
                    ![i].recv_buf = SubSeq(Buffer(i), Min(LineEnds(i)) + 1, Len(Buffer(i))),
                    ![i].request_completed = @ + 1,
                    ![i].state = "done"]
    /\ completed' = completed + 1
    /\ RecordLatency
    /\ pc' = "next"
    /\ UNCHANGED <<i, runVars, next_sequence, revents, failed>>

\* Mutated form of NoLine: what one recv returns is taken for a whole answer.
NoLine_OneRecv(k) == Taken(k) # <<>> \/ net[k].link # "up"

\* Without a line: a full buffer (EMSGSIZE), the end of the stream, or an error.
NoLine(k) == Len(Buffer(k)) = RecvCap \/ net[k].link # "up"

\* handle_recv returns -1: for one of these, or for another line (EPROTO).
RecvFails ==
    /\ Reading
    /\ \/ LineEnds(i) # {} /\ SubSeq(Buffer(i), 1, Min(LineEnds(i))) # Request(i)
       \/ LineEnds(i) = {} /\ NoLine(i)
    /\ RecvConsumes
    /\ Fail
    /\ UNCHANGED <<runVars, revents>>

RecvPart ==
    /\ Reading
    /\ LineEnds(i) = {} /\ ~NoLine(i)
    /\ RecvConsumes
    /\ client' = [client EXCEPT ![i].recv_buf = Buffer(i)]
    /\ Advance("check")
    /\ UNCHANGED <<runVars, next_sequence, revents, statVars>>

\* Mutated form of Finished: a client without further requests is kept open.
Finished_KeptOpen(c) == c

Finished(c) == CloseClient(c)

\* After an answer: the next request, or the client is finished.
NextRequest ==
    /\ pc = "next"
    /\ IF next_sequence[i] < requests_per_client
       THEN /\ client' = [client EXCEPT ![i] = Prepared(@)]
            /\ next_sequence' = [next_sequence EXCEPT ![i] = @ + 1]
       ELSE /\ client' = [client EXCEPT ![i] = Finished(@)]
            /\ UNCHANGED next_sequence
    /\ IF i + 1 = client_count THEN pc' = "check" /\ i' = 0 ELSE pc' = "handle" /\ i' = i + 1
    /\ UNCHANGED <<runVars, revents, statVars, net>>

\* Mutated form of Success: failures do not show in the exit status.
Success_IgnoresFailures == ~stop_requested

Success == failed = 0 /\ ~stop_requested

\* The report, the last closes and the exit status.
Report ==
    /\ pc = "report"
    /\ client' = [k \in Clients |-> CloseClient(client[k])]
    /\ exit_success' = Success
    /\ pc' = "exit"
    /\ UNCHANGED <<i, stop_requested, poll_failed, next_sequence, revents, statVars, net>>

-----------------------------------------------------------------------------
Handle ==
    \/ Skip \/ Connected \/ Fatal \/ HandleSend
    \/ RecvAnswer \/ RecvFails \/ RecvPart \/ NextRequest

Main == Reconnect \/ Leave \/ Build \/ Poll \/ Handle \/ Report

Environment ==
    \/ \E k \in Clients : ConnectEnds(k) \/ Echo(k) \/ Noise(k) \/ Lose(k)
    \/ Interrupt \/ PollInterrupted \/ PollFails

Next == Main \/ Environment

Spec == Init /\ [][Next]_vars

\* The program runs, connection attempts end, and the server echoes.
FairSpec ==
    /\ Spec
    /\ WF_vars(Main)
    /\ \A k \in Clients : WF_vars(ConnectEnds(k)) /\ WF_vars(Echo(k))

-----------------------------------------------------------------------------
(* Properties                                                              *)

TypeOK ==
    /\ pc \in {"connect", "check", "poll", "handle", "next", "report", "exit"}
    /\ i \in Clients
    /\ {stop_requested, poll_failed, exit_success} \subseteq BOOLEAN
    /\ \A k \in Clients :
         /\ client[k].open \in BOOLEAN
         /\ client[k].state \in {"connecting", "writing", "reading", "done", "failed"}
         /\ client[k].send_offset \in 0..ReqLen
         /\ client[k].recv_buf \in Seq(ByteSet) /\ Len(client[k].recv_buf) <= RecvCap
         /\ client[k].request_completed \in 0..requests_per_client
         /\ next_sequence[k] \in 0..requests_per_client
         /\ revents[k] \subseteq {"IN", "OUT", "ERR", "HUP"}
         /\ net[k].inq \in Seq(ByteSet)
    /\ {completed, failed} \subseteq 0..total_requests
    /\ latency_count \in 0..latency_capacity

\* Clients that main has given up, while it runs.
GivenUp == {k \in Clients : /\ ~client[k].open
                            /\ pc = "connect" => k < i
                            /\ client[k].request_completed < requests_per_client}

\* The requests of which the answer came, one pair for each.
Answered ==
    {w \in Clients \X (1..requests_per_client) : w[2] <= client[w[1]].request_completed}

\* completed counts answered requests, failed counts clients and not requests:
\* a client that is given up is counted once, whatever it still had to send,
\* and one that is open has exactly one request in flight (lines 472-474, 718,
\* 842-859, 873, 890, 908 and 920-942).
Accounting ==
    pc # "exit" =>
        /\ completed = Cardinality(Answered)
        /\ failed = Cardinality(GivenUp)
        /\ \A k \in Clients : client[k].open /\ client[k].state \in {"writing", "reading"}
             => next_sequence[k] = client[k].request_completed + 1

\* Whenever poll is called, every open client has asked for an event and has a
\* request in flight: the branch of the switch for CLIENT_DONE (lines 769-790),
\* after which events stays 0, is never taken.
NobodyIdle ==
    pc = "poll" =>
        \A k \in Clients : client[k].open =>
            client[k].state \in {"connecting", "writing", "reading"}

\* Offsets and lengths stay in the buffers, the counters count what they should,
\* and no client is left behind by the loop (lines 397-520 and 716-942).
Inv == TypeOK /\ Accounting /\ NobodyIdle

\* A server that keeps its connections open and sends back what it received is
\* never blamed: no split of the bytes over sends and receives, and no order of
\* events, makes a client fail or answers one request with another's echo
\* (lines 397-520).
NoFalseFailure ==
    pc # "exit" =>
        \A k \in GivenUp : \/ net[k].link \in {"none", "refused", "fin", "rst"}
                           \/ net[k].noise > 0

\* A run that ends by itself has given up a client only on its last request:
\* completed + failed falls short for ever as soon as a client is given up
\* earlier, and then only SIGINT or an error of poll ends the run (lines
\* 724-726).
EndsOnlyIfAccounted ==
    pc = "report" /\ ~stop_requested /\ ~poll_failed =>
        \A k \in Clients : client[k].request_completed \in
            (IF k \in GivenUp THEN {requests_per_client - 1} ELSE {requests_per_client})

\* The exit status is success only if every request was answered, except after
\* an error of poll, which it does not show (lines 803-811 and 1050-1053).
SuccessIsComplete ==
    exit_success /\ ~poll_failed => completed = total_requests

\* Unless a connection is lost or a client given up, the run ends.
Terminates ==
    <>(pc = "exit" \/ failed > 0 \/ \E k \in Clients : net[k].link \in {"fin", "rst"})

\* Lines 479-480: what is left in recv_buf behind an answer is kept for the
\* next request.
LeftoverKept ==
    [][\A k \in Clients :
         client[k].state = "done" /\ client'[k].state = "writing" =>
             client'[k].recv_buf = client[k].recv_buf]_vars
==============================================================================
