-------------------------- MODULE StressClient_proof --------------------------
(***************************************************************************)
(* Proofs about StressClient, for any number of clients and requests, any  *)
(* length of a request, any buffer it fits in and any noise of the server. *)
(*                                                                         *)
(* The inductive invariant StressInv says of each open client by itself    *)
(* what its offsets, its buffer and its connection have to do with each    *)
(* other (InFlight): while the server sends nothing of its own, recv_buf   *)
(* and what the kernel holds are the echo, byte for byte, of the one       *)
(* request that is not answered.  Of the loop it says what the states, the *)
(* events that poll reported and the counters have to do with the clients. *)
(***************************************************************************)
EXTENDS StressClient, FiniteSetTheorems, FunctionTheorems, SequenceTheorems, TLAPS

States == {"connecting", "writing", "reading", "done", "failed"}
Links  == {"none", "syn", "up", "refused", "fin", "rst"}
Events == {"IN", "OUT", "ERR", "HUP"}

ClientSet ==
    [open : BOOLEAN, state : States, send_offset : 0..ReqLen, recv_buf : Seq(ByteSet),
     request_completed : 0..requests_per_client]
NetSet == [link : Links, echoed : Nat, inq : Seq(ByteSet), noise : Nat]

\* The variables of the loop have their types, and those of the clients, which are
\* functions.
LoopTyped ==
    /\ pc \in {"connect", "check", "poll", "handle", "next", "report", "exit"} /\ i \in Clients
    /\ stop_requested \in BOOLEAN /\ poll_failed \in BOOLEAN /\ exit_success \in BOOLEAN
    /\ completed \in 0..total_requests /\ failed \in 0..total_requests
    /\ latency_count \in 0..latency_capacity

ClientsTyped ==
    /\ client \in [Clients -> ClientSet]
    /\ next_sequence \in [Clients -> 0..requests_per_client]
    /\ revents \in [Clients -> SUBSET Events]
    /\ net \in [Clients -> NetSet]
    /\ \A k \in Clients : Len(client[k].recv_buf) <= RecvCap

\* The bytes of q are those behind a, one after the other, up to b.
Run(q, a, b) == a + Len(q) = b /\ \A p \in 1..Len(q) : q[p] = a + p

\* What a client c with next sequence number s has sent, and of it the requests
\* that are answered.
SentBy(c, s) == IF s = 0 THEN 0 ELSE (s - 1) * ReqLen + c.send_offset
AnsweredBytes(c) == c.request_completed * ReqLen

\* An open client c, its next sequence number s and its connection n.
InFlight(c, s, n) ==
    /\ c.state \in States \ {"failed"} /\ n.link # "none"
    /\ c.state = "connecting" => s = 0 /\ c.request_completed = 0 /\ c.recv_buf = <<>>
    /\ c.state # "connecting" => s > 0 /\ n.link \in {"up", "fin", "rst"}
    /\ c.state = "writing" => c.recv_buf = <<>> /\ c.send_offset < ReqLen
    /\ c.state \in {"writing", "reading"} => s = c.request_completed + 1
    /\ c.state = "done" => s = c.request_completed
    /\ c.state \in {"reading", "done"} => c.send_offset = ReqLen
    /\ n.echoed <= SentBy(c, s) /\ SentBy(c, s) <= n.echoed + NetCap
    /\ n.noise = 0 => Run(c.recv_buf \o n.inq, AnsweredBytes(c), n.echoed)

AllInFlight ==
    \A k \in Clients : client[k].open => InFlight(client[k], next_sequence[k], net[k])

\* Before its connection is made a client has done nothing.
Unstarted ==
    pc = "connect" => \A k \in Clients :
        /\ revents[k] = {}
        /\ k >= i => /\ ~client[k].open /\ client[k].state = "connecting"
                     /\ client[k].request_completed = 0 /\ client[k].recv_buf = <<>>
                     /\ next_sequence[k] = 0
                     /\ net[k].link = "none" /\ net[k].echoed = 0 /\ net[k].inq = <<>>

\* A client is only in CLIENT_DONE until the loop has gone on with it.
DoneOnlyNow ==
    /\ pc = "next" => client[i].open /\ client[i].state = "done"
    /\ \A k \in Clients : client[k].open /\ client[k].state = "done" => pc = "next" /\ k = i

\* The events of the last poll still say what they said.
EventsHold ==
    \A k \in Clients :
        /\ revents[k] \cap {"ERR", "HUP"} # {} => net[k].link \in {"refused", "rst"}
        /\ client[k].open /\ client[k].state = "connecting" /\ revents[k] # {} =>
             net[k].link # "syn"

\* The counters.
Counted == pc # "exit" => completed = Cardinality(Answered) /\ failed = Cardinality(GivenUp)

\* Why the loop was left, and what the exit status says.
Leaving ==
    /\ pc = "report" /\ ~stop_requested /\ ~poll_failed => completed + failed >= total_requests
    /\ exit_success => pc = "exit" /\ (poll_failed \/ completed = total_requests)

StressInv ==
    /\ LoopTyped /\ ClientsTyped /\ Counted /\ NoFalseFailure
    /\ AllInFlight /\ Unstarted /\ DoneOnlyNow /\ EventsHold /\ Leaving

-----------------------------------------------------------------------------
(* Numbers.                                                                *)

\* What the assumption says of each constant.
LEMMA Constants ==
    /\ client_count \in Nat /\ client_count > 0 /\ 0 \in Clients
    /\ requests_per_client \in Nat /\ requests_per_client > 0
    /\ ReqLen \in Nat /\ ReqLen >= 2 /\ RecvCap \in Nat /\ RecvCap >= ReqLen
    /\ NetCap \in Nat /\ NetCap > 0 /\ MaxSamples \in Nat
  BY StressAssumption DEF Clients

\* Whole requests.
LEMMA Times ==
    /\ \A x \in Nat : x * ReqLen \in Nat /\ (x + 1) * ReqLen = x * ReqLen + ReqLen
    /\ \A x \in Nat, y \in Nat : x <= y => x * ReqLen <= y * ReqLen
  <1>1. ReqLen \in Nat
    BY Constants
  <1>2. \A x \in Nat : x * ReqLen \in Nat /\ (x + 1) * ReqLen = x * ReqLen + ReqLen
    BY <1>1
  <1>3. ASSUME NEW x \in Nat, NEW y \in Nat, x <= y PROVE x * ReqLen <= y * ReqLen
    <2>1. PICK d \in Nat : y = x + d
      <3>1. y - x \in Nat /\ y = x + (y - x)
        BY <1>3
      <3> QED
        BY <3>1
    <2>2. y * ReqLen = x * ReqLen + d * ReqLen
      BY <1>1, <2>1
    <2>3. x * ReqLen \in Nat /\ d * ReqLen \in Nat
      BY <1>1
    <2> QED
      BY <2>2, <2>3
  <1> QED
    BY <1>2, <1>3

\* Of the bytes of a request only the last one is its '\n'.
LEMMA OneNewline ==
    ASSUME NEW x \in Nat, x < requests_per_client, NEW p \in 1..ReqLen
    PROVE  /\ IsNewline(x * ReqLen + p) <=> p = ReqLen
           /\ x * ReqLen + p \in 1..(requests_per_client * ReqLen)
           /\ x * ReqLen + p \in ByteSet
  <1>1. ReqLen \in Nat /\ ReqLen >= 2 /\ requests_per_client \in Nat
    BY Constants
  <1>2. PICK a \in Nat, b \in Nat : a = x * ReqLen /\ b = requests_per_client * ReqLen
    BY <1>1, Times
  <1>3. a + ReqLen <= b
    <2>1. (x + 1) * ReqLen <= requests_per_client * ReqLen
      BY <1>1, Times
    <2>2. (x + 1) * ReqLen = a + ReqLen
      BY <1>2, Times
    <2> QED
      BY <1>2, <2>1, <2>2
  <1>4. a + p \in 1..b
    BY <1>1, <1>3
  <1>5. Junk = b + 1
    BY <1>2 DEF Junk
  <1>6. (x * ReqLen + p) % ReqLen = 0 <=> p = ReqLen
    <2>1. CASE p = ReqLen
      <3>1. (x * ReqLen + ReqLen) % ReqLen = 0
        BY <1>1, SMT
      <3> QED
        BY <2>1, <3>1
    <2>2. CASE p < ReqLen
      <3>1. (x * ReqLen + p) % ReqLen = p
        BY <1>1, <2>2, SMT
      <3> QED
        BY <1>1, <2>2, <3>1
    <2> QED
      BY <1>1, <2>1, <2>2
  <1> QED
    BY <1>2, <1>4, <1>5, <1>6 DEF IsNewline, ByteSet

-----------------------------------------------------------------------------
(* Sets of requests and of clients.                                        *)

Work == Clients \X (1..requests_per_client)

\* There are as many requests as main counts on.
LEMMA WorkSize ==
    /\ IsFiniteSet(Clients) /\ Cardinality(Clients) = client_count
    /\ IsFiniteSet(Work) /\ Cardinality(Work) = total_requests
    /\ total_requests \in Nat /\ client_count <= total_requests
  <1>1. client_count \in Nat /\ client_count > 0 /\ requests_per_client \in Nat /\ requests_per_client > 0
    BY Constants
  <1>2. IsFiniteSet(Clients) /\ Cardinality(Clients) = client_count
    <2>1. IsFiniteSet(0..(client_count - 1))
          /\ Cardinality(0..(client_count - 1)) =
               IF 0 > client_count - 1 THEN 0 ELSE (client_count - 1) - 0 + 1
      BY <1>1, FS_Interval
    <2> QED
      BY <1>1, <2>1 DEF Clients
  <1>3. IsFiniteSet(1..requests_per_client) /\ Cardinality(1..requests_per_client) = requests_per_client
    <2>1. IsFiniteSet(1..requests_per_client)
          /\ Cardinality(1..requests_per_client) =
               IF 1 > requests_per_client THEN 0 ELSE requests_per_client - 1 + 1
      BY <1>1, FS_Interval
    <2> QED
      BY <1>1, <2>1
  <1>4. IsFiniteSet(Work) /\ Cardinality(Work) = total_requests
    BY <1>2, <1>3, FS_Product DEF Work, total_requests
  <1>5. total_requests \in Nat /\ client_count <= total_requests
    <2>1. PICK m \in Nat : requests_per_client = m + 1
      <3>1. requests_per_client - 1 \in Nat /\ requests_per_client = (requests_per_client - 1) + 1
        BY <1>1
      <3> QED
        BY <3>1
    <2>2. client_count * requests_per_client = client_count * m + client_count
      BY <1>1, <2>1
    <2>3. client_count * m \in Nat
      BY <1>1
    <2> QED
      BY <1>1, <2>2, <2>3 DEF total_requests
  <1> QED
    BY <1>2, <1>4, <1>5

\* What is answered and who is given up are finite sets, and no larger than the
\* numbers of requests and of clients.
LEMMA SetSizes ==
    /\ IsFiniteSet(Answered) /\ Cardinality(Answered) \in 0..total_requests
    /\ IsFiniteSet(GivenUp) /\ Cardinality(GivenUp) \in 0..total_requests
  <1>1. Answered \in SUBSET Work /\ GivenUp \in SUBSET Clients
    BY DEF Answered, Work, GivenUp
  <1>2. /\ IsFiniteSet(Answered) /\ Cardinality(Answered) <= Cardinality(Work)
        /\ IsFiniteSet(GivenUp) /\ Cardinality(GivenUp) <= Cardinality(Clients)
    BY <1>1, WorkSize, FS_Subset
  <1>3. Cardinality(Answered) \in Nat /\ Cardinality(GivenUp) \in Nat
    BY <1>2, FS_CardinalityType
  <1>4. PICK t \in Nat, c \in Nat : t = total_requests /\ c = client_count
    BY WorkSize, Constants
  <1>5. c <= t
    BY <1>4, WorkSize
  <1>6. Cardinality(Answered) <= t /\ Cardinality(GivenUp) <= c
    BY <1>2, <1>4, WorkSize
  <1>7. Cardinality(GivenUp) <= t
    BY <1>3, <1>5, <1>6
  <1> QED
    BY <1>2, <1>3, <1>4, <1>6, <1>7

-----------------------------------------------------------------------------
(* The first state.                                                        *)

\* The first state.
LEMMA StressInitInv == Init => StressInv
  <1> SUFFICES ASSUME Init PROVE StressInv
    OBVIOUS
  <1>0. /\ pc = "connect" /\ i = 0 /\ stop_requested = FALSE /\ poll_failed = FALSE
        /\ exit_success = FALSE /\ completed = 0 /\ failed = 0 /\ latency_count = 0
    BY DEF Init
  <1>1. <<>> \in Seq(ByteSet) /\ Len(<<>>) = 0
    BY EmptySeq
  <1>2. /\ 0 \in 0..ReqLen /\ 0 \in 0..requests_per_client /\ 0 \in 0..total_requests
        /\ 0 \in 0..latency_capacity /\ 0 <= RecvCap
    BY Constants, WorkSize DEF latency_capacity
  <1>3. \A k \in Clients :
          /\ client[k] = [open |-> FALSE, state |-> "connecting", send_offset |-> 0,
                          recv_buf |-> <<>>, request_completed |-> 0]
          /\ next_sequence[k] = 0 /\ revents[k] = {}
          /\ net[k] = [link |-> "none", echoed |-> 0, inq |-> <<>>, noise |-> 0]
    BY DEF Init
  <1>4. ClientsTyped
    <2>1. client \in [Clients -> ClientSet]
      <3>1. [open |-> FALSE, state |-> "connecting", send_offset |-> 0,
             recv_buf |-> <<>>, request_completed |-> 0] \in ClientSet
        BY <1>1, <1>2 DEF ClientSet, States
      <3> QED
        BY <3>1 DEF Init
    <2>2. net \in [Clients -> NetSet]
      <3>1. [link |-> "none", echoed |-> 0, inq |-> <<>>, noise |-> 0] \in NetSet
        BY <1>1 DEF NetSet, Links
      <3> QED
        BY <3>1 DEF Init
    <2>3. next_sequence \in [Clients -> 0..requests_per_client] /\ revents \in [Clients -> SUBSET Events]
      BY <1>2 DEF Init
    <2>4. \A k \in Clients : Len(client[k].recv_buf) <= RecvCap
      BY <1>1, <1>2, <1>3
    <2> QED
      BY <2>1, <2>2, <2>3, <2>4 DEF ClientsTyped
  <1>5. LoopTyped
    BY <1>0, <1>2, Constants DEF LoopTyped
  <1>6. GivenUp = {} /\ Answered = {}
    <2>1. GivenUp = {}
      <3>1. ASSUME NEW k \in Clients, k < 0 PROVE FALSE
        BY <3>1, Constants DEF Clients
      <3> QED
        BY <1>0, <3>1 DEF GivenUp
    <2>2. Answered = {}
      <3>1. ASSUME NEW w \in Clients \X (1..requests_per_client), w[2] <= client[w[1]].request_completed
            PROVE  FALSE
        <4>1. w[1] \in Clients /\ w[2] \in 1..requests_per_client
          OBVIOUS
        <4>2. client[w[1]].request_completed = 0
          BY <1>3, <4>1
        <4>3. w[2] <= 0
          BY <3>1, <4>2
        <4> QED
          BY <4>1, <4>3
      <3> QED
        BY <3>1 DEF Answered
    <2> QED
      BY <2>1, <2>2
  <1>7. Counted
    BY <1>0, <1>6, FS_EmptySet DEF Counted
  <1>8. NoFalseFailure
    BY <1>6 DEF NoFalseFailure
  <1>9. \A k \in Clients : ~client[k].open
    BY <1>3
  <1>10. AllInFlight /\ DoneOnlyNow
    BY <1>0, <1>9 DEF AllInFlight, DoneOnlyNow
  <1>11. Unstarted /\ EventsHold
    BY <1>3, <1>9 DEF Unstarted, EventsHold
  <1>12. Leaving
    BY <1>0 DEF Leaving
  <1> QED
    BY <1>4, <1>5, <1>7, <1>8, <1>10, <1>11, <1>12 DEF StressInv

-----------------------------------------------------------------------------
(* The network and the server.                                             *)

\* What happens on the connection of an open client changes nothing else.
LEMMA NetKeeps ==
    ASSUME StressInv, NEW k \in Clients, client[k].open, NEW n \in NetSet, Net(k, n),
           InFlight(client[k], next_sequence[k], n),
           net[k].link \in {"refused", "rst"} => n.link = net[k].link,
           net[k].link # "syn" => n.link # "syn"
    PROVE  StressInv'
  <1>0. /\ net' = [net EXCEPT ![k] = n]
        /\ UNCHANGED <<pc, i, stop_requested, poll_failed, exit_success, client, next_sequence,
                       revents, completed, failed, latency_count>>
    BY DEF Net, loopVars, runVars, statVars
  <1>1. net' \in [Clients -> NetSet] /\ net'[k] = n /\ \A j \in Clients \ {k} : net'[j] = net[j]
    BY <1>0 DEF StressInv, ClientsTyped
  <1>2. LoopTyped' /\ ClientsTyped' /\ Leaving' /\ DoneOnlyNow'
    BY <1>0, <1>1 DEF StressInv, LoopTyped, ClientsTyped, Leaving, DoneOnlyNow
  <1>3. Answered' = Answered /\ GivenUp' = GivenUp /\ k \notin GivenUp /\ GivenUp \subseteq Clients
    BY <1>0 DEF Answered, GivenUp
  <1>4. Counted'
    BY <1>0, <1>3 DEF StressInv, Counted
  <1>5. NoFalseFailure'
    BY <1>0, <1>1, <1>3 DEF StressInv, NoFalseFailure
  <1>6. AllInFlight'
    BY <1>0, <1>1 DEF StressInv, AllInFlight
  <1>7. Unstarted'
    BY <1>0, <1>1 DEF StressInv, Unstarted
  <1>8. EventsHold'
    BY <1>0, <1>1 DEF StressInv, EventsHold
  <1> QED
    BY <1>2, <1>4, <1>5, <1>6, <1>7, <1>8 DEF StressInv

\* What a client has sent: the answered requests, and what is sent of the other.
LEMMA SentProps ==
    ASSUME NEW c \in ClientSet, NEW s \in 0..requests_per_client, NEW n, InFlight(c, s, n)
    PROVE  /\ AnsweredBytes(c) \in Nat /\ SentBy(c, s) \in 0..(requests_per_client * ReqLen)
           /\ c.state = "connecting" => SentBy(c, s) = 0 /\ AnsweredBytes(c) = 0
           /\ c.state \in {"writing", "reading"} =>
                SentBy(c, s) = AnsweredBytes(c) + c.send_offset
           /\ c.state = "done" => SentBy(c, s) = AnsweredBytes(c)
  <1>1. /\ c.request_completed \in Nat /\ c.send_offset \in 0..ReqLen /\ s \in Nat
        /\ ReqLen \in Nat /\ requests_per_client \in Nat /\ s <= requests_per_client
        /\ c.state \in States \ {"failed"}
    BY Constants DEF ClientSet, InFlight
  <1>2. PICK a \in Nat, t \in Nat : a = AnsweredBytes(c) /\ t = requests_per_client * ReqLen
    BY <1>1, Times DEF AnsweredBytes
  <1>3. CASE c.state = "connecting"
    <2>1. s = 0 /\ c.request_completed = 0
      BY <1>3 DEF InFlight
    <2>2. SentBy(c, s) = 0 /\ AnsweredBytes(c) = 0
      BY <1>1, <2>1 DEF SentBy, AnsweredBytes
    <2> QED
      BY <1>2, <1>3, <2>2
  <1>4. CASE c.state \in {"writing", "reading"}
    <2>1. s = c.request_completed + 1
      BY <1>4 DEF InFlight
    <2>2. s # 0 /\ s - 1 = c.request_completed
      BY <1>1, <2>1
    <2>3. SentBy(c, s) = a + c.send_offset
      BY <1>2, <2>2 DEF SentBy, AnsweredBytes
    <2>4. a + ReqLen <= t
      <3>1. (c.request_completed + 1) * ReqLen <= requests_per_client * ReqLen
        BY <1>1, <2>1, Times
      <3>2. (c.request_completed + 1) * ReqLen = a + ReqLen
        BY <1>1, <1>2, Times DEF AnsweredBytes
      <3> QED
        BY <1>2, <3>1, <3>2
    <2>5. a + c.send_offset \in 0..t
      BY <1>1, <2>4
    <2> QED
      BY <1>2, <1>4, <2>3, <2>5
  <1>5. CASE c.state = "done"
    <2>1. s = c.request_completed /\ c.send_offset = ReqLen /\ s > 0
      BY <1>5 DEF InFlight
    <2>2. PICK m \in Nat : s = m + 1
      <3>1. s - 1 \in Nat /\ s = (s - 1) + 1
        BY <1>1, <2>1
      <3> QED
        BY <3>1
    <2>3. SentBy(c, s) = m * ReqLen + ReqLen
      BY <2>1, <2>2 DEF SentBy
    <2>4. SentBy(c, s) = a
      <3>1. (m + 1) * ReqLen = m * ReqLen + ReqLen
        BY Times
      <3> QED
        BY <1>2, <2>1, <2>2, <2>3, <3>1 DEF AnsweredBytes
    <2>5. a <= t
      BY <1>1, <1>2, <2>1, Times DEF AnsweredBytes
    <2> QED
      BY <1>2, <1>5, <2>4, <2>5
  <1> QED
    BY <1>1, <1>3, <1>4, <1>5 DEF States

\* The next byte of the echo arrives.
LEMMA RunAppend ==
    ASSUME NEW S, NEW p \in Seq(S), NEW q \in Seq(S), NEW a \in Nat, NEW b \in Nat,
           Run(p \o q, a, b), b + 1 \in S
    PROVE  Run(p \o Append(q, b + 1), a, b + 1)
  <1>1. /\ Append(q, b + 1) \in Seq(S) /\ Len(Append(q, b + 1)) = Len(q) + 1
        /\ \A j \in 1..Len(q) : Append(q, b + 1)[j] = q[j]
        /\ Append(q, b + 1)[Len(q) + 1] = b + 1
    BY AppendProperties
  <1>2. PICK r : r = Append(q, b + 1)
    OBVIOUS
  <1>3. PICK l \in Nat, m \in Nat : l = Len(p) /\ m = Len(q)
    OBVIOUS
  <1>4. /\ Len(p \o q) = l + m
        /\ \A j \in 1..(l + m) : (p \o q)[j] = IF j <= l THEN p[j] ELSE q[j - l]
    BY <1>3, ConcatProperties
  <1>5. /\ Len(p \o r) = l + (m + 1)
        /\ \A j \in 1..(l + (m + 1)) : (p \o r)[j] = IF j <= l THEN p[j] ELSE r[j - l]
    <2>1. r \in Seq(S) /\ Len(r) = m + 1
      BY <1>1, <1>2, <1>3
    <2>2. /\ Len(p \o r) = Len(p) + Len(r)
          /\ \A j \in 1..(Len(p) + Len(r)) : (p \o r)[j] = IF j <= Len(p) THEN p[j] ELSE r[j - Len(p)]
      BY <2>1, ConcatProperties
    <2> QED
      BY <1>3, <2>1, <2>2
  <1>6. a + (l + m) = b /\ \A j \in 1..(l + m) : (p \o q)[j] = a + j
    BY <1>4 DEF Run
  <1>7. \A j \in 1..(l + (m + 1)) : (p \o r)[j] = a + j
    <2> TAKE j \in 1..(l + (m + 1))
    <2>1. CASE j <= l
      <3>1. j \in 1..(l + m)
        BY <2>1
      <3> QED
        BY <1>4, <1>5, <1>6, <2>1, <3>1
    <2>2. CASE ~(j <= l) /\ j <= l + m
      <3>1. j \in 1..(l + m) /\ j - l \in 1..m
        BY <2>2
      <3>2. r[j - l] = q[j - l]
        BY <1>1, <1>2, <1>3, <3>1
      <3>3. (p \o r)[j] = r[j - l] /\ (p \o q)[j] = q[j - l]
        BY <1>4, <1>5, <2>2, <3>1
      <3> QED
        BY <1>6, <3>1, <3>2, <3>3
    <2>3. CASE j = l + (m + 1)
      <3>1. ~(j <= l) /\ j - l = m + 1
        BY <2>3
      <3>2. (p \o r)[j] = r[m + 1]
        BY <1>5, <3>1
      <3>3. r[m + 1] = b + 1
        BY <1>1, <1>2, <1>3
      <3>4. b + 1 = a + j
        BY <1>6, <2>3
      <3> QED
        BY <3>2, <3>3, <3>4, Zenon
    <2>4. j <= l \/ (~(j <= l) /\ j <= l + m) \/ j = l + (m + 1)
      OBVIOUS
    <2> QED
      BY <2>1, <2>2, <2>3, <2>4
  <1>8. a + (l + (m + 1)) = b + 1
    BY <1>6
  <1> QED
    BY <1>2, <1>5, <1>7, <1>8 DEF Run

\* What the network and the server do.
LEMMA NetStep ==
    ASSUME StressInv, NEW k \in Clients, ConnectEnds(k) \/ Echo(k) \/ Noise(k) \/ Lose(k)
    PROVE  StressInv'
  <1>1. PICK c, s, n : c = client[k] /\ s = next_sequence[k] /\ n = net[k]
    OBVIOUS
  <1>2. c.open
    BY <1>1 DEF ConnectEnds, Echo, Noise, Lose
  <1>3. c \in ClientSet /\ s \in 0..requests_per_client /\ n \in NetSet /\ InFlight(c, s, n)
    BY <1>1, <1>2 DEF StressInv, ClientsTyped, AllInFlight
  <1>4. /\ n.link \in Links /\ n.echoed \in Nat /\ n.inq \in Seq(ByteSet) /\ n.noise \in Nat
        /\ c.recv_buf \in Seq(ByteSet)
    BY <1>3 DEF NetSet, ClientSet
  <1>5. CASE ConnectEnds(k) \/ Lose(k)
    <2>1. PICK l \in {"up", "refused", "fin", "rst"} :
            /\ Net(k, [n EXCEPT !.link = l])
            /\ \/ n.link = "syn" /\ l \in {"up", "refused"}
               \/ n.link \in {"up", "fin"} /\ l \in {"fin", "rst"}
      <3>1. CASE ConnectEnds(k)
        BY <1>1, <3>1 DEF ConnectEnds
      <3>2. CASE Lose(k)
        BY <1>1, <3>2 DEF Lose
      <3> QED
        BY <1>5, <3>1, <3>2
    <2>2. PICK o : o = [n EXCEPT !.link = l]
      OBVIOUS
    <2>3. o \in NetSet /\ o.link = l /\ o.echoed = n.echoed /\ o.inq = n.inq /\ o.noise = n.noise
      BY <1>3, <2>2 DEF NetSet, Links
    <2>4. InFlight(c, s, o)
      BY <1>3, <2>1, <2>3 DEF InFlight
    <2> QED
      BY <1>1, <1>2, <2>1, <2>2, <2>3, <2>4, NetKeeps
  <1>6. CASE Echo(k)
    <2>1. n.echoed < SentBy(c, s) /\ Net(k, [n EXCEPT !.echoed = @ + 1, !.inq = Append(@, n.echoed + 1)])
      BY <1>1, <1>6 DEF Echo, Sent, SentBy
    <2>2. PICK o : o = [n EXCEPT !.echoed = @ + 1, !.inq = Append(@, n.echoed + 1)]
      OBVIOUS
    <2>3. PICK e \in Nat, t \in Nat : e = n.echoed /\ t = SentBy(c, s)
      BY <1>3, <1>4, SentProps
    <2>4. e + 1 \in ByteSet
      <3>1. t \in 0..(requests_per_client * ReqLen) /\ requests_per_client * ReqLen \in Nat
        BY <1>3, <2>3, SentProps, Times, Constants
      <3>2. PICK b \in Nat : b = requests_per_client * ReqLen
        BY <3>1
      <3>3. e + 1 \in 0..(b + 1)
        BY <2>1, <2>3, <3>1, <3>2
      <3> QED
        BY <3>2, <3>3 DEF ByteSet, Junk
    <2>5. Append(n.inq, e + 1) \in Seq(ByteSet)
      BY <1>4, <2>4
    <2>6. /\ o \in NetSet /\ o.link = n.link /\ o.echoed = e + 1
          /\ o.inq = Append(n.inq, e + 1) /\ o.noise = n.noise
      <3>1. /\ o = [link |-> n.link, echoed |-> e + 1, inq |-> Append(n.inq, e + 1), noise |-> n.noise]
        BY <1>3, <2>2, <2>3 DEF NetSet
      <3> QED
        BY <1>4, <2>5, <3>1 DEF NetSet
    <2>7. e + 1 <= t /\ t <= e + 1 + NetCap
      <3>1. t <= e + NetCap /\ NetCap \in Nat /\ e < t
        BY <1>3, <2>1, <2>3, Constants DEF InFlight
      <3> QED
        BY <3>1
    <2>8. n.noise = 0 => Run(c.recv_buf \o o.inq, AnsweredBytes(c), e + 1)
      <3>1. SUFFICES ASSUME n.noise = 0 PROVE Run(c.recv_buf \o Append(n.inq, e + 1), AnsweredBytes(c), e + 1)
        BY <2>6
      <3>2. Run(c.recv_buf \o n.inq, AnsweredBytes(c), e) /\ AnsweredBytes(c) \in Nat
        BY <1>3, <2>3, <3>1, SentProps DEF InFlight
      <3> QED
        BY <1>4, <2>4, <3>2, RunAppend
    <2>9. InFlight(c, s, o)
      BY <1>3, <2>3, <2>6, <2>7, <2>8 DEF InFlight
    <2> QED
      BY <1>1, <1>2, <2>1, <2>2, <2>6, <2>9, NetKeeps
  <1>7. CASE Noise(k)
    <2>1. PICK b \in {Newline, Junk} : Net(k, [n EXCEPT !.noise = @ + 1, !.inq = Append(@, b)])
      BY <1>1, <1>7 DEF Noise
    <2>2. PICK o : o = [n EXCEPT !.noise = @ + 1, !.inq = Append(@, b)]
      OBVIOUS
    <2>3. b \in ByteSet
      <3>1. PICK m \in Nat : m = requests_per_client * ReqLen
        BY Times, Constants
      <3>2. Junk = m + 1 /\ 0 \in 0..(m + 1) /\ m + 1 \in 0..(m + 1)
        BY <3>1 DEF Junk
      <3> QED
        BY <3>2 DEF ByteSet, Newline
    <2>4. /\ o \in NetSet /\ o.link = n.link /\ o.echoed = n.echoed /\ o.noise = n.noise + 1
      <3>1. Append(n.inq, b) \in Seq(ByteSet)
        BY <1>4, <2>3
      <3>2. /\ o = [link |-> n.link, echoed |-> n.echoed, inq |-> Append(n.inq, b), noise |-> n.noise + 1]
        BY <1>3, <2>2 DEF NetSet
      <3> QED
        BY <1>4, <3>1, <3>2 DEF NetSet
    <2>5. o.noise # 0
      BY <1>4, <2>4
    <2>6. InFlight(c, s, o)
      BY <1>3, <2>4, <2>5 DEF InFlight
    <2> QED
      BY <1>1, <1>2, <2>1, <2>2, <2>4, <2>6, NetKeeps
  <1> QED
    BY <1>5, <1>6, <1>7

-----------------------------------------------------------------------------
(* main, apart from its work on a client.                                  *)

\* The index of a loop over the clients stays in the array.
LEMMA AdvanceProps ==
    ASSUME LoopTyped, NEW label, Advance(label)
    PROVE  /\ i' \in Clients
           /\ (i + 1 = client_count /\ pc' = label /\ i' = 0) \/ (pc' = pc /\ i' = i + 1 /\ i + 1 # client_count)
  <1>1. client_count \in Nat /\ client_count > 0 /\ i \in 0..(client_count - 1)
    BY Constants DEF LoopTyped, Clients
  <1>2. CASE i + 1 = client_count
    BY <1>1, <1>2 DEF Advance, Clients
  <1>3. CASE i + 1 # client_count
    <2>1. i + 1 \in 0..(client_count - 1)
      BY <1>1, <1>3
    <2> QED
      BY <1>3, <2>1 DEF Advance, Clients
  <1> QED
    BY <1>2, <1>3

\* A step of the loop alone.
LEMMA LoopKeeps ==
    ASSUME StressInv, UNCHANGED <<client, next_sequence, net, completed, failed>>,
           LoopTyped', revents' \in [Clients -> SUBSET Events], EventsHold', Leaving',
           pc = "connect" \/ pc' = "connect" => pc' = pc /\ i' = i /\ revents' = revents,
           pc = "next" \/ pc' = "next" => pc' = pc /\ i' = i,
           pc = "exit" => pc' = "exit"
    PROVE  StressInv'
  <1>1. ClientsTyped'
    BY DEF StressInv, ClientsTyped
  <1>2. Answered' = Answered
    BY DEF Answered
  <1>3. GivenUp' = GivenUp
    BY DEF GivenUp
  <1>4. Counted'
    BY <1>2, <1>3 DEF StressInv, Counted
  <1>5. NoFalseFailure'
    BY <1>3 DEF StressInv, NoFalseFailure
  <1>6. AllInFlight' /\ DoneOnlyNow'
    BY DEF StressInv, AllInFlight, DoneOnlyNow
  <1>7. Unstarted'
    BY DEF StressInv, Unstarted
  <1> QED
    BY <1>1, <1>4, <1>5, <1>6, <1>7 DEF StressInv

\* When poll is called no open client is in CLIENT_DONE, so that Build builds no
\* request.
LEMMA NobodyLeft == StressInv /\ pc = "check" => LeftDone = {}
  BY DEF StressInv, DoneOnlyNow, LeftDone

\* What poll reports is true of the connection.
LEMMA ReventsProps ==
    ASSUME StressInv, NEW k \in Clients
    PROVE  /\ Revents(k) \in SUBSET Events
           /\ Revents(k) \cap {"ERR", "HUP"} # {} => net[k].link \in {"refused", "rst"}
           /\ client[k].open /\ client[k].state = "connecting" /\ Revents(k) # {} =>
                net[k].link # "syn"
  <1>1. client[k].open => client[k].state \in {"connecting", "writing", "reading", "done"}
    BY DEF StressInv, AllInFlight, InFlight, States
  <1>2. CASE ~client[k].open
    BY <1>2 DEF Revents
  <1>3. CASE client[k].open
    BY <1>1, <1>3 DEF Revents, Events
  <1> QED
    BY <1>2, <1>3

\* SIGINT, the condition of the loop, the entries for poll, poll, and the loop.
LEMMA LoopStep ==
    ASSUME StressInv,
           Interrupt \/ Leave \/ Build \/ Poll \/ PollInterrupted \/ PollFails \/ Skip
    PROVE  StressInv'
  <1>1. CASE Interrupt
    <2>1. /\ stop_requested' = TRUE /\ pc # "exit"
          /\ UNCHANGED <<pc, i, poll_failed, exit_success, client, next_sequence, revents,
                         completed, failed, latency_count, net>>
      BY <1>1 DEF Interrupt, loopVars, statVars
    <2>2. LoopTyped' /\ EventsHold' /\ Leaving' /\ revents' \in [Clients -> SUBSET Events]
      BY <2>1 DEF StressInv, LoopTyped, EventsHold, Leaving, ClientsTyped
    <2> QED
      BY <2>1, <2>2, LoopKeeps
  <1>2. CASE Leave \/ PollFails
    <2>1. /\ pc \in {"check", "poll"} /\ pc' = "report" /\ poll_failed' \in BOOLEAN
          /\ UNCHANGED <<i, stop_requested, exit_success, client, next_sequence, revents,
                         completed, failed, latency_count, net>>
          /\ poll_failed' \/ stop_requested \/ completed + failed >= total_requests
      BY <1>2 DEF Leave, PollFails, AllAccounted, runVars, statVars, StressInv, LoopTyped
    <2>2. LoopTyped' /\ EventsHold' /\ Leaving' /\ revents' \in [Clients -> SUBSET Events]
      BY <2>1 DEF StressInv, LoopTyped, EventsHold, Leaving, ClientsTyped
    <2> QED
      BY <2>1, <2>2, LoopKeeps
  <1>3. CASE Build
    <2>1. /\ pc = "check" /\ pc' = "poll" /\ LeftDone = {}
          /\ client' = [k \in Clients |-> client[k]]
          /\ revents' = [k \in Clients |-> {}]
          /\ UNCHANGED <<i, stop_requested, poll_failed, exit_success,
                         completed, failed, latency_count, net>>
      BY <1>3, NobodyLeft DEF Build, runVars, statVars
    <2>2. next_sequence' = [k \in Clients |-> next_sequence[k] + 0]
      BY <1>3, <2>1 DEF Build
    <2>3. client' = client
      BY <2>1 DEF StressInv, ClientsTyped
    <2>4. next_sequence' = next_sequence
      <3>1. \A k \in Clients : next_sequence[k] \in Nat
        BY Constants DEF StressInv, ClientsTyped
      <3>2. \A k \in Clients : next_sequence[k] + 0 = next_sequence[k]
        BY <3>1
      <3>3. next_sequence' = [k \in Clients |-> next_sequence[k]]
        BY <2>2, <3>2
      <3> QED
        BY <3>3 DEF StressInv, ClientsTyped
    <2>5. LoopTyped' /\ EventsHold' /\ Leaving' /\ revents' \in [Clients -> SUBSET Events]
      BY <2>1 DEF StressInv, LoopTyped, EventsHold, Leaving
    <2> QED
      BY <2>1, <2>3, <2>4, <2>5, LoopKeeps
  <1>4. CASE Poll
    <2>1. /\ pc = "poll" /\ pc' = "handle" /\ i' = 0
          /\ revents' = [k \in Clients |-> Revents(k)]
          /\ UNCHANGED <<stop_requested, poll_failed, exit_success, client, next_sequence,
                         completed, failed, latency_count, net>>
      BY <1>4 DEF Poll, runVars, statVars
    <2>2. LoopTyped' /\ Leaving'
      BY <2>1, Constants DEF StressInv, LoopTyped, Leaving
    <2>3. \A k \in Clients : revents'[k] = Revents(k)
      BY <2>1
    <2>4. EventsHold'
      BY <2>1, <2>3, ReventsProps DEF EventsHold
    <2>5. revents' \in [Clients -> SUBSET Events]
      BY <2>1, ReventsProps
    <2> QED
      BY <2>1, <2>2, <2>4, <2>5, LoopKeeps
  <1>5. CASE PollInterrupted
    <2>1. /\ pc = "poll" /\ pc' = "check"
          /\ UNCHANGED <<i, stop_requested, poll_failed, exit_success, client, next_sequence,
                         revents, completed, failed, latency_count, net>>
      BY <1>5 DEF PollInterrupted, runVars, statVars
    <2>2. LoopTyped' /\ EventsHold' /\ Leaving' /\ revents' \in [Clients -> SUBSET Events]
      BY <2>1 DEF StressInv, LoopTyped, EventsHold, Leaving, ClientsTyped
    <2> QED
      BY <2>1, <2>2, LoopKeeps
  <1>6. CASE Skip
    <2>1. /\ pc = "handle" /\ Advance("check")
          /\ UNCHANGED <<stop_requested, poll_failed, exit_success, client, next_sequence,
                         revents, completed, failed, latency_count, net>>
      BY <1>6 DEF Skip, runVars, statVars
    <2>2. pc' \in {"check", "handle"} /\ i' \in Clients
      BY <2>1, AdvanceProps DEF StressInv
    <2>3. LoopTyped' /\ EventsHold' /\ Leaving' /\ revents' \in [Clients -> SUBSET Events]
      BY <2>1, <2>2 DEF StressInv, LoopTyped, EventsHold, Leaving, ClientsTyped
    <2> QED
      BY <2>1, <2>2, <2>3, LoopKeeps
  <1> QED
    BY <1>1, <1>2, <1>3, <1>4, <1>5, <1>6

\* The report closes every client.
LEMMA ReportStep ==
    ASSUME StressInv, Report
    PROVE  StressInv'
  <1>1. /\ pc = "report" /\ pc' = "exit"
        /\ client' = [k \in Clients |-> CloseClient(client[k])]
        /\ exit_success' = (failed = 0 /\ ~stop_requested)
        /\ UNCHANGED <<i, stop_requested, poll_failed, next_sequence, revents,
                       completed, failed, latency_count, net>>
    BY DEF Report, Success, statVars
  <1>2. \A k \in Clients :
          /\ client'[k] \in ClientSet /\ ~client'[k].open /\ Len(client'[k].recv_buf) <= RecvCap
    <2> TAKE k \in Clients
    <2>1. client'[k] = CloseClient(client[k])
      BY <1>1
    <2>2. PICK c \in ClientSet : c = client[k] /\ Len(c.recv_buf) <= RecvCap
      BY DEF StressInv, ClientsTyped
    <2>3. CloseClient(c) \in ClientSet /\ ~CloseClient(c).open /\ CloseClient(c).recv_buf = c.recv_buf
      BY DEF CloseClient, ClientSet, States
    <2> QED
      BY <2>1, <2>2, <2>3
  <1>3. ClientsTyped'
    <2>1. client' \in [Clients -> ClientSet]
      BY <1>1, <1>2
    <2> QED
      BY <1>1, <1>2, <2>1 DEF StressInv, ClientsTyped
  <1>4. LoopTyped'
    BY <1>1 DEF StressInv, LoopTyped
  <1>5. Counted' /\ NoFalseFailure' /\ Unstarted'
    BY <1>1 DEF Counted, NoFalseFailure, Unstarted
  <1>6. AllInFlight' /\ DoneOnlyNow' /\ EventsHold'
    BY <1>1, <1>2 DEF StressInv, AllInFlight, DoneOnlyNow, EventsHold
  <1>7. Leaving'
    <2>1. ASSUME exit_success', ~poll_failed PROVE completed = total_requests
      <3>1. failed = 0 /\ ~stop_requested
        BY <1>1, <2>1
      <3>2. completed + 0 >= total_requests
        BY <1>1, <2>1, <3>1 DEF StressInv, Leaving
      <3>3. completed \in 0..total_requests /\ total_requests \in Nat
        BY WorkSize DEF StressInv, LoopTyped
      <3> QED
        BY <3>2, <3>3
    <2> QED
      BY <1>1, <2>1 DEF Leaving
  <1> QED
    BY <1>3, <1>4, <1>5, <1>6, <1>7 DEF StressInv

-----------------------------------------------------------------------------
(* Steps that change client i.                                             *)

\* What such a step keeps whatever it does to the counters.
LEMMA OneClient ==
    ASSUME StressInv, NEW c \in ClientSet, NEW s \in 0..requests_per_client, NEW n \in NetSet,
           Len(c.recv_buf) <= RecvCap, c.open => InFlight(c, s, n),
           client' = [client EXCEPT ![i] = c], next_sequence' = [next_sequence EXCEPT ![i] = s],
           net' = [net EXCEPT ![i] = n], revents' = revents,
           revents[i] \cap {"ERR", "HUP"} # {} => n.link \in {"refused", "rst"},
           c.open /\ c.state = "connecting" /\ revents[i] # {} => n.link # "syn"
    PROVE  /\ ClientsTyped' /\ AllInFlight' /\ EventsHold'
           /\ i \in Clients /\ client'[i] = c /\ next_sequence'[i] = s /\ net'[i] = n
           /\ \A k \in Clients : k # i => /\ client'[k] = client[k] /\ net'[k] = net[k]
                                          /\ next_sequence'[k] = next_sequence[k]
  <1>1. /\ i \in Clients /\ client \in [Clients -> ClientSet] /\ net \in [Clients -> NetSet]
        /\ next_sequence \in [Clients -> 0..requests_per_client]
        /\ revents \in [Clients -> SUBSET Events]
        /\ \A k \in Clients : Len(client[k].recv_buf) <= RecvCap
    BY DEF StressInv, LoopTyped, ClientsTyped
  <1>2. /\ client' \in [Clients -> ClientSet] /\ net' \in [Clients -> NetSet]
        /\ next_sequence' \in [Clients -> 0..requests_per_client]
        /\ client'[i] = c /\ next_sequence'[i] = s /\ net'[i] = n
        /\ \A k \in Clients : k # i => /\ client'[k] = client[k] /\ net'[k] = net[k]
                                       /\ next_sequence'[k] = next_sequence[k]
    BY <1>1
  <1>3. ClientsTyped'
    BY <1>1, <1>2 DEF ClientsTyped
  <1>4. \A k \in Clients : client'[k].open => InFlight(client'[k], next_sequence'[k], net'[k])
    BY <1>2 DEF StressInv, AllInFlight
  <1>5. AllInFlight'
    BY <1>4 DEF AllInFlight
  <1>6. EventsHold'
    BY <1>2 DEF StressInv, EventsHold
  <1> QED
    BY <1>1, <1>2, <1>3, <1>5, <1>6

\* Nobody is answered where no request_completed goes up.
LEMMA SameAnswered ==
    ASSUME \A k \in Clients : client'[k].request_completed = client[k].request_completed
    PROVE  Answered' = Answered
  <1>1. \A w \in Clients \X (1..requests_per_client) :
           client'[w[1]].request_completed = client[w[1]].request_completed
    OBVIOUS
  <1> QED
    BY <1>1 DEF Answered

\* The client goes on with the request it is at, or with the first or next one.
LEMMA GoesOn ==
    ASSUME StressInv, pc \in {"handle", "next"}, client[i].open,
           NEW c \in ClientSet, NEW s \in 0..requests_per_client, NEW n \in NetSet,
           Len(c.recv_buf) <= RecvCap, InFlight(c, s, n),
           c.open, c.state \in {"writing", "reading"},
           c.request_completed = client[i].request_completed,
           n.link = net[i].link,
           client' = [client EXCEPT ![i] = c], next_sequence' = [next_sequence EXCEPT ![i] = s],
           net' = [net EXCEPT ![i] = n],
           pc' \in {"check", "handle"}, i' \in Clients,
           UNCHANGED <<stop_requested, poll_failed, exit_success, revents, completed, failed,
                       latency_count>>
    PROVE  StressInv'
  <1>1. i \in Clients
    BY DEF StressInv, LoopTyped
  <1>2. /\ ClientsTyped' /\ AllInFlight' /\ EventsHold'
        /\ client'[i] = c /\ net'[i] = n
        /\ \A k \in Clients : k # i => client'[k] = client[k] /\ net'[k] = net[k]
    <2>1. revents[i] \cap {"ERR", "HUP"} # {} => n.link \in {"refused", "rst"}
      BY <1>1 DEF StressInv, EventsHold
    <2> QED
      BY <2>1, OneClient
  <1>3. LoopTyped'
    BY DEF StressInv, LoopTyped
  <1>4. Answered' = Answered
    <2>1. \A k \in Clients : client'[k].request_completed = client[k].request_completed
      BY <1>2
    <2> QED
      BY <2>1, SameAnswered
  <1>5. GivenUp' = GivenUp /\ i \notin GivenUp
    BY <1>2 DEF GivenUp
  <1>6. Counted' /\ NoFalseFailure'
    <2>1. \A k \in GivenUp : k \in Clients /\ k # i /\ net'[k] = net[k]
      BY <1>2, <1>5 DEF GivenUp
    <2> QED
      BY <1>4, <1>5, <2>1 DEF StressInv, Counted, NoFalseFailure
  <1>7. Unstarted' /\ DoneOnlyNow' /\ Leaving'
    BY <1>2 DEF StressInv, Unstarted, DoneOnlyNow, Leaving
  <1> QED
    BY <1>2, <1>3, <1>6, <1>7 DEF StressInv

\* A client that still had a request is closed, and counted: its connection is
\* lost, or the server sent what nobody sent it.
LEMMA GivesUp ==
    ASSUME StressInv, pc = "handle", client[i].open, Fail,
           NEW n \in NetSet, net' = [net EXCEPT ![i] = n],
           n.link = net[i].link, n.noise = net[i].noise,
           n.link \in {"refused", "fin", "rst"} \/ n.noise > 0,
           UNCHANGED <<stop_requested, poll_failed, exit_success, revents>>
    PROVE  StressInv'
  <1>1. /\ i \in Clients /\ LoopTyped /\ Advance("check") /\ failed' = failed + 1
        /\ client' = [client EXCEPT ![i] = CloseClient(client[i])]
        /\ UNCHANGED <<next_sequence, completed, latency_count>>
    BY DEF StressInv, LoopTyped, Fail
  <1>2. PICK b, s : b = client[i] /\ s = next_sequence[i]
    OBVIOUS
  <1>3. PICK c : c = CloseClient(b)
    OBVIOUS
  <1>4. /\ c \in ClientSet /\ ~c.open /\ c.recv_buf = b.recv_buf /\ Len(c.recv_buf) <= RecvCap
        /\ c.request_completed = b.request_completed /\ s \in 0..requests_per_client
    <2>1. b \in ClientSet /\ Len(b.recv_buf) <= RecvCap /\ s \in 0..requests_per_client
      BY <1>1, <1>2 DEF StressInv, ClientsTyped
    <2> QED
      BY <1>3, <2>1 DEF CloseClient, ClientSet, States
  <1>5. /\ ClientsTyped' /\ AllInFlight' /\ EventsHold'
        /\ client'[i] = c /\ net'[i] = n
        /\ \A k \in Clients : k # i => client'[k] = client[k] /\ net'[k] = net[k]
    <2>1. revents[i] \cap {"ERR", "HUP"} # {} => n.link \in {"refused", "rst"}
      BY <1>1 DEF StressInv, EventsHold
    <2>2. client' = [client EXCEPT ![i] = c] /\ next_sequence' = [next_sequence EXCEPT ![i] = s]
      BY <1>1, <1>2, <1>3 DEF StressInv, ClientsTyped
    <2> QED
      BY <1>4, <2>1, <2>2, OneClient
  <1>6. pc' \in {"check", "handle"} /\ i' \in Clients
    BY <1>1, AdvanceProps
  <1>7. b.request_completed < requests_per_client
    <2>1. b.state # "done" /\ InFlight(b, s, net[i]) /\ b \in ClientSet
      BY <1>1, <1>2 DEF StressInv, DoneOnlyNow, AllInFlight, ClientsTyped
    <2>2. b.request_completed = 0 \/ s = b.request_completed + 1
      BY <2>1 DEF InFlight, States
    <2>3. b.request_completed \in Nat /\ requests_per_client \in Nat /\ requests_per_client > 0
      BY <2>1, Constants DEF ClientSet
    <2> QED
      BY <1>4, <2>2, <2>3
  <1>8. Answered' = Answered
    <2>1. \A k \in Clients : client'[k].request_completed = client[k].request_completed
      BY <1>2, <1>4, <1>5
    <2> QED
      BY <2>1, SameAnswered
  <1>9. GivenUp' = GivenUp \cup {i} /\ i \notin GivenUp
    BY <1>1, <1>2, <1>4, <1>5, <1>6, <1>7 DEF GivenUp
  <1>10. Counted' /\ failed' \in 0..total_requests
    <2>1. IsFiniteSet(GivenUp) /\ Cardinality(GivenUp) = failed /\ completed = Cardinality(Answered)
      BY SetSizes DEF StressInv, Counted
    <2>2. Cardinality(GivenUp') = failed + 1
      BY <1>9, <2>1, FS_AddElement
    <2>3. (Cardinality(GivenUp) \in 0..total_requests)'
      BY SetSizes, PTL
    <2> QED
      BY <1>1, <1>8, <2>1, <2>2, <2>3 DEF Counted, total_requests
  <1>11. LoopTyped'
    BY <1>1, <1>6, <1>10 DEF LoopTyped, total_requests, latency_capacity
  <1>12. NoFalseFailure'
    <2>1. SUFFICES ASSUME NEW k \in GivenUp'
                   PROVE  net'[k].link \in {"none", "refused", "fin", "rst"} \/ net'[k].noise > 0
      BY DEF NoFalseFailure
    <2>2. CASE k = i
      BY <1>5, <2>2
    <2>3. CASE k # i
      <3>1. k \in GivenUp /\ k \in Clients
        BY <1>9, <2>1, <2>3 DEF GivenUp
      <3>2. net'[k] = net[k]
        BY <1>5, <2>3, <3>1
      <3> QED
        BY <3>1, <3>2 DEF StressInv, NoFalseFailure
    <2> QED
      BY <2>2, <2>3
  <1>13. Unstarted' /\ DoneOnlyNow' /\ Leaving'
    BY <1>1, <1>4, <1>5, <1>6 DEF StressInv, Unstarted, DoneOnlyNow, Leaving
  <1> QED
    BY <1>5, <1>10, <1>11, <1>12, <1>13 DEF StressInv

-----------------------------------------------------------------------------
(* main: the connections, and what needs no look at recv_buf.              *)

\* reconnect_client.
LEMMA ReconnectStep ==
    ASSUME StressInv, Reconnect
    PROVE  StressInv'
  <1>1. /\ pc = "connect" /\ i \in Clients /\ LoopTyped /\ Advance("check")
        /\ UNCHANGED <<stop_requested, poll_failed, exit_success, next_sequence, revents,
                       completed, latency_count>>
    BY DEF StressInv, LoopTyped, Reconnect, runVars
  <1>2. PICK b, n : b = client[i] /\ n = net[i]
    OBVIOUS
  <1>3. /\ b \in ClientSet /\ n \in NetSet /\ next_sequence[i] = 0 /\ Len(b.recv_buf) <= RecvCap
        /\ ~b.open /\ b.state = "connecting" /\ b.request_completed = 0 /\ b.recv_buf = <<>>
        /\ n.link = "none" /\ n.echoed = 0 /\ n.inq = <<>> /\ revents[i] = {} /\ 0 \in 0..requests_per_client
    <2>1. b \in ClientSet /\ n \in NetSet /\ Len(b.recv_buf) <= RecvCap
      BY <1>1, <1>2 DEF StressInv, ClientsTyped
    <2>2. i >= i
      BY <1>1, Constants DEF Clients
    <2>3. /\ next_sequence[i] = 0 /\ revents[i] = {}
          /\ ~b.open /\ b.state = "connecting" /\ b.request_completed = 0 /\ b.recv_buf = <<>>
          /\ n.link = "none" /\ n.echoed = 0 /\ n.inq = <<>>
      BY <1>1, <1>2, <2>2 DEF StressInv, Unstarted
    <2> QED
      BY <2>1, <2>3, Constants
  <1>4. /\ pc' \in {"connect", "check"} /\ i' \in Clients
        /\ \A k \in Clients : (pc' = "connect" => k < i') <=> k <= i
    <2>1. /\ i' \in Clients
          /\ (i + 1 = client_count /\ pc' = "check" /\ i' = 0) \/ (pc' = "connect" /\ i' = i + 1)
      BY <1>1, AdvanceProps
    <2>2. \A k \in Clients : k \in Nat /\ i \in Nat /\ k <= client_count - 1
      BY <1>1, Constants DEF Clients
    <2>3. ASSUME NEW k \in Clients PROVE (pc' = "connect" => k < i') <=> k <= i
      <3>1. k \in Nat /\ i \in Nat /\ k <= client_count - 1 /\ client_count \in Nat
        BY <2>2, Constants
      <3> QED
        BY <2>1, <3>1
    <2> QED
      BY <2>1, <2>3
  <1>5. \A k \in Clients : ~(k <= i) <=> k > i
    BY <1>1, Constants DEF Clients
  <1>6. /\ i \notin GivenUp
        /\ \A k \in Clients : k # i => (k <= i <=> k < i)
    <2>1. ~(i < i) /\ \A k \in Clients : k # i => (k <= i <=> k < i)
      BY <1>1, Constants DEF Clients
    <2> QED
      BY <1>1, <2>1 DEF GivenUp
  <1>7. ASSUME NEW c \in ClientSet, NEW o \in NetSet, client'[i] = c, net'[i] = o,
               client' \in [Clients -> ClientSet], net' \in [Clients -> NetSet],
               \A k \in Clients : k # i => client'[k] = client[k] /\ net'[k] = net[k],
               c.recv_buf = <<>>, c.request_completed = 0, c.state # "done",
               o.echoed = 0, o.inq = <<>>, c.open => InFlight(c, 0, o)
        PROVE  /\ ClientsTyped' /\ AllInFlight' /\ EventsHold' /\ Unstarted' /\ DoneOnlyNow'
               /\ Answered' = Answered /\ GivenUp' = IF c.open THEN GivenUp ELSE GivenUp \cup {i}
    <2>1. ClientsTyped'
      BY <1>1, <1>2, <1>3, <1>7 DEF StressInv, ClientsTyped
    <2>2. AllInFlight'
      BY <1>1, <1>3, <1>7 DEF StressInv, AllInFlight
    <2>3. EventsHold' /\ Unstarted'
      <3>1. EventsHold'
        BY <1>1, <1>3, <1>7 DEF StressInv, EventsHold
      <3>2. \A k \in Clients : pc' = "connect" /\ k >= i' => k # i /\ k >= i
        BY <1>1, <1>4, <1>5, Constants DEF Clients
      <3> QED
        BY <1>1, <1>4, <1>7, <3>1, <3>2 DEF StressInv, Unstarted
    <2>4. DoneOnlyNow'
      BY <1>1, <1>4, <1>7 DEF StressInv, DoneOnlyNow
    <2>5. Answered' = Answered
      <3>1. \A k \in Clients : client'[k].request_completed = client[k].request_completed
        BY <1>2, <1>3, <1>7
      <3> QED
        BY <3>1, SameAnswered
    <2>6. \A k \in Clients : k # i => (k \in GivenUp' <=> k \in GivenUp)
      BY <1>1, <1>4, <1>6, <1>7 DEF GivenUp
    <2>7. i \in GivenUp' <=> ~c.open
      <3>1. i <= i /\ 0 < requests_per_client
        BY <1>1, Constants DEF Clients
      <3> QED
        BY <1>1, <1>4, <1>7, <3>1 DEF GivenUp
    <2>8. GivenUp' \subseteq Clients /\ GivenUp \subseteq Clients
      BY DEF GivenUp
    <2> QED
      BY <1>1, <1>6, <2>1, <2>2, <2>3, <2>4, <2>5, <2>6, <2>7, <2>8
  <1>8. CASE /\ client' = [client EXCEPT ![i].open = TRUE, ![i].state = "connecting"]
             /\ net' = [net EXCEPT ![i].link = "syn"] /\ UNCHANGED failed
    <2>1. PICK c, o : c = [b EXCEPT !.open = TRUE, !.state = "connecting"] /\ o = [n EXCEPT !.link = "syn"]
      OBVIOUS
    <2>2. /\ c \in ClientSet /\ c.open /\ c.state = "connecting" /\ c.recv_buf = <<>>
          /\ c.request_completed = 0
      BY <1>3, <2>1 DEF ClientSet, States
    <2>3. o \in NetSet /\ o.link = "syn" /\ o.echoed = 0 /\ o.inq = <<>>
      BY <1>3, <2>1 DEF NetSet, Links
    <2>4. /\ client'[i] = c /\ net'[i] = o
          /\ \A k \in Clients : k # i => client'[k] = client[k] /\ net'[k] = net[k]
          /\ client' \in [Clients -> ClientSet] /\ net' \in [Clients -> NetSet]
      BY <1>1, <1>2, <1>8, <2>1, <2>2, <2>3 DEF StressInv, ClientsTyped
    <2>5. InFlight(c, 0, o)
      <3>1. SentBy(c, 0) = 0 /\ AnsweredBytes(c) = 0 /\ NetCap \in Nat
        BY <2>2, Constants DEF SentBy, AnsweredBytes
      <3>2. Run(c.recv_buf \o o.inq, 0, 0)
        <4>1. <<>> \o <<>> = <<>> /\ Len(<<>>) = 0
          BY EmptySeq, ConcatEmptySeq
        <4>2. c.recv_buf \o o.inq = <<>>
          BY <2>2, <2>3, <4>1
        <4> QED
          BY <4>1, <4>2 DEF Run
      <3> QED
        BY <2>2, <2>3, <3>1, <3>2 DEF InFlight, States
    <2>6. /\ ClientsTyped' /\ AllInFlight' /\ EventsHold' /\ Unstarted' /\ DoneOnlyNow'
          /\ Answered' = Answered /\ GivenUp' = GivenUp
      BY <1>7, <2>2, <2>3, <2>4, <2>5
    <2>7. LoopTyped'
      BY <1>1, <1>4, <1>8 DEF LoopTyped
    <2>8. Counted' /\ Leaving'
      BY <1>1, <1>4, <1>8, <2>6 DEF StressInv, Counted, Leaving
    <2>9. NoFalseFailure'
      <3>1. \A k \in GivenUp : k \in Clients /\ k # i
        BY <1>6 DEF GivenUp
      <3> QED
        BY <1>1, <2>4, <2>6, <3>1 DEF StressInv, NoFalseFailure
    <2> QED
      BY <2>6, <2>7, <2>8, <2>9 DEF StressInv
  <1>9. CASE client' = [client EXCEPT ![i].state = "failed"] /\ failed' = failed + 1 /\ UNCHANGED net
    <2>1. PICK c : c = [b EXCEPT !.state = "failed"]
      OBVIOUS
    <2>2. /\ c \in ClientSet /\ ~c.open /\ c.state = "failed" /\ c.recv_buf = <<>>
          /\ c.request_completed = 0
      BY <1>3, <2>1 DEF ClientSet, States
    <2>4. /\ client'[i] = c /\ net'[i] = n
          /\ \A k \in Clients : k # i => client'[k] = client[k] /\ net'[k] = net[k]
          /\ client' \in [Clients -> ClientSet] /\ net' \in [Clients -> NetSet]
      BY <1>1, <1>2, <1>9, <2>1, <2>2 DEF StressInv, ClientsTyped
    <2>6. /\ ClientsTyped' /\ AllInFlight' /\ EventsHold' /\ Unstarted' /\ DoneOnlyNow'
          /\ Answered' = Answered /\ GivenUp' = GivenUp \cup {i}
      BY <1>3, <1>7, <2>2, <2>4
    <2>7. Counted' /\ failed' \in 0..total_requests
      <3>1. IsFiniteSet(GivenUp) /\ Cardinality(GivenUp) = failed /\ completed = Cardinality(Answered)
        BY <1>1, SetSizes DEF StressInv, Counted
      <3>2. Cardinality(GivenUp') = failed + 1
        BY <1>6, <2>6, <3>1, FS_AddElement
      <3>3. (Cardinality(GivenUp) \in 0..total_requests)'
        BY SetSizes, PTL
      <3> QED
        BY <1>1, <1>9, <2>6, <3>1, <3>2, <3>3 DEF Counted, total_requests
    <2>8. LoopTyped'
      BY <1>1, <1>4, <2>7 DEF LoopTyped, total_requests, latency_capacity
    <2>9. Leaving'
      BY <1>1, <1>4 DEF StressInv, Leaving
    <2>10. NoFalseFailure'
      <3>1. \A k \in GivenUp : k \in Clients /\ k # i
        BY <1>6 DEF GivenUp
      <3> QED
        BY <1>1, <1>3, <2>4, <2>6, <3>1 DEF StressInv, NoFalseFailure
    <2> QED
      BY <2>6, <2>7, <2>8, <2>9, <2>10 DEF StressInv
  <1> QED
    BY <1>8, <1>9 DEF Reconnect, CountRefused

\* Where nothing is said of the connection, it stays as it is.
LEMMA SameNet ==
    ASSUME StressInv, UNCHANGED net
    PROVE  i \in Clients /\ net[i] \in NetSet /\ net' = [net EXCEPT ![i] = net[i]]
  BY DEF StressInv, LoopTyped, ClientsTyped

\* The next request of a client that has none in flight.
LEMMA PreparedProps ==
    ASSUME NEW b \in ClientSet, NEW s \in 0..requests_per_client, NEW n \in NetSet,
           InFlight(b, s, n), b.open, b.state \in {"connecting", "done"}, s < requests_per_client,
           b.state = "connecting" => n.link \notin {"syn", "refused"}
    PROVE  /\ Prepared(b) \in ClientSet /\ Len(Prepared(b).recv_buf) <= RecvCap
           /\ Prepared(b).open /\ Prepared(b).state = "writing"
           /\ Prepared(b).request_completed = b.request_completed
           /\ s + 1 \in 0..requests_per_client /\ InFlight(Prepared(b), s + 1, n)
  <1>1. PICK c : c = Prepared(b)
    OBVIOUS
  <1>2. <<>> \in Seq(ByteSet) /\ Len(<<>>) = 0
    BY EmptySeq
  <1>3. /\ c \in ClientSet /\ c.open /\ c.state = "writing" /\ c.send_offset = 0
        /\ c.recv_buf = <<>> /\ c.request_completed = b.request_completed
    <2>1. c = [open |-> b.open, state |-> "writing", send_offset |-> 0, recv_buf |-> <<>>,
               request_completed |-> b.request_completed]
      BY <1>1 DEF Prepared, ClientSet
    <2>2. b.request_completed \in 0..requests_per_client /\ b.open \in BOOLEAN /\ 0 \in 0..ReqLen
      BY Constants DEF ClientSet
    <2> QED
      BY <1>2, <2>1, <2>2 DEF ClientSet, States
  <1>4. /\ Len(c.recv_buf) <= RecvCap /\ s + 1 \in 0..requests_per_client
        /\ s \in Nat /\ b.request_completed \in Nat /\ c.request_completed = s
    BY <1>2, <1>3, Constants DEF ClientSet, InFlight
  <1>5. /\ b.recv_buf \in Seq(ByteSet) /\ n.inq \in Seq(ByteSet) /\ n.echoed \in Nat
        /\ n.link \in Links
    BY DEF ClientSet, NetSet
  <1>6. /\ AnsweredBytes(c) = AnsweredBytes(b) /\ SentBy(c, s + 1) = AnsweredBytes(b)
        /\ SentBy(b, s) = AnsweredBytes(b) /\ AnsweredBytes(b) \in Nat
    <2>1. SentBy(b, s) = AnsweredBytes(b) /\ AnsweredBytes(b) \in Nat
      BY SentProps
    <2>2. AnsweredBytes(c) = AnsweredBytes(b)
      BY <1>3 DEF AnsweredBytes
    <2>3. SentBy(c, s + 1) = s * ReqLen + 0
      <3>1. s + 1 # 0 /\ (s + 1) - 1 = s
        BY <1>4
      <3> QED
        BY <1>3, <3>1 DEF SentBy
    <2>4. s * ReqLen = AnsweredBytes(b)
      BY <1>3, <1>4 DEF AnsweredBytes
    <2>5. AnsweredBytes(b) + 0 = AnsweredBytes(b)
      BY <2>1
    <2> QED
      BY <2>1, <2>2, <2>3, <2>4, <2>5
  <1>7. n.noise = 0 => Run(c.recv_buf \o n.inq, AnsweredBytes(c), n.echoed)
    <2> SUFFICES ASSUME n.noise = 0 PROVE Run(c.recv_buf \o n.inq, AnsweredBytes(c), n.echoed)
      OBVIOUS
    <2>1. Run(b.recv_buf \o n.inq, AnsweredBytes(b), n.echoed) /\ n.echoed <= AnsweredBytes(b)
      BY <1>6 DEF InFlight
    <2>2. Len(b.recv_buf \o n.inq) = Len(b.recv_buf) + Len(n.inq)
      BY <1>5, ConcatProperties
    <2>3. PICK l \in Nat, m \in Nat, a \in Nat, e \in Nat :
            l = Len(b.recv_buf) /\ m = Len(n.inq) /\ a = AnsweredBytes(b) /\ e = n.echoed
      BY <1>5, <1>6
    <2>4. a + (l + m) = e /\ e <= a
      BY <2>1, <2>2, <2>3 DEF Run
    <2>5. l = 0
      BY <2>4
    <2>6. b.recv_buf = <<>>
      BY <1>5, <2>3, <2>5, EmptySeq
    <2> QED
      BY <1>3, <1>6, <2>1, <2>6
  <1>8. n.link # "none" /\ n.link \in {"up", "fin", "rst"}
    BY <1>5 DEF InFlight, Links
  <1>9. n.echoed <= SentBy(c, s + 1) /\ SentBy(c, s + 1) <= n.echoed + NetCap
    BY <1>6 DEF InFlight
  <1>10. s + 1 > 0 /\ s + 1 = c.request_completed + 1 /\ c.send_offset < ReqLen
    BY <1>3, <1>4, Constants
  <1>11. InFlight(c, s + 1, n)
    BY <1>3, <1>7, <1>8, <1>9, <1>10 DEF InFlight, States
  <1> QED
    BY <1>1, <1>3, <1>4, <1>11

\* handle_connect: the first request, or a failure.
LEMMA ConnectedStep ==
    ASSUME StressInv, Connected
    PROVE  StressInv'
  <1>1. /\ pc = "handle" /\ client[i].open /\ client[i].state = "connecting" /\ revents[i] # {}
        /\ UNCHANGED <<stop_requested, poll_failed, exit_success, revents, net>>
        /\ i \in Clients /\ LoopTyped
    BY DEF Connected, Handling, runVars, StressInv, LoopTyped
  <1>2. PICK b, s, n : b = client[i] /\ s = next_sequence[i] /\ n = net[i]
    OBVIOUS
  <1>3. /\ b \in ClientSet /\ s \in 0..requests_per_client /\ n \in NetSet /\ InFlight(b, s, n)
        /\ n.link # "syn" /\ net' = [net EXCEPT ![i] = n]
    BY <1>1, <1>2, SameNet DEF StressInv, ClientsTyped, AllInFlight, EventsHold
  <1>4. CASE n.link \in {"refused", "rst"}
    <2>1. Fail
      BY <1>2, <1>4 DEF Connected
    <2> QED
      BY <1>1, <1>2, <1>3, <1>4, <2>1, GivesUp
  <1>5. CASE n.link \notin {"refused", "rst"}
    <2>1. /\ client' = [client EXCEPT ![i] = Prepared(b)]
          /\ next_sequence' = [next_sequence EXCEPT ![i] = s + 1]
          /\ Advance("check") /\ UNCHANGED <<completed, failed, latency_count>>
      BY <1>1, <1>2, <1>5 DEF Connected, statVars
    <2>2. s < requests_per_client
      BY <1>1, <1>2, <1>3, Constants DEF InFlight
    <2>3. PICK c, z : c = Prepared(b) /\ z = s + 1
      OBVIOUS
    <2>4. /\ c \in ClientSet /\ Len(c.recv_buf) <= RecvCap /\ c.open /\ c.state = "writing"
          /\ c.request_completed = b.request_completed
          /\ z \in 0..requests_per_client /\ InFlight(c, z, n)
      BY <1>1, <1>2, <1>3, <1>5, <2>2, <2>3, PreparedProps
    <2>5. pc' \in {"check", "handle"} /\ i' \in Clients
      BY <1>1, <2>1, AdvanceProps
    <2> QED
      BY <1>1, <1>2, <1>3, <2>1, <2>3, <2>4, <2>5, GoesOn
  <1> QED
    BY <1>4, <1>5

\* POLLERR or POLLHUP: a failure.
LEMMA FatalStep ==
    ASSUME StressInv, Fatal
    PROVE  StressInv'
  <1>1. /\ pc = "handle" /\ client[i].open /\ {"ERR", "HUP"} \cap revents[i] # {} /\ Fail
        /\ UNCHANGED <<stop_requested, poll_failed, exit_success, revents, net>>
    BY DEF Fatal, Handling, runVars
  <1>2. PICK n : n = net[i]
    OBVIOUS
  <1>3. n \in NetSet /\ net' = [net EXCEPT ![i] = n] /\ n.link \in {"refused", "rst"}
    BY <1>1, <1>2, SameNet DEF StressInv, EventsHold
  <1> QED
    BY <1>1, <1>2, <1>3, GivesUp

\* handle_send.
LEMMA HandleSendStep ==
    ASSUME StressInv, HandleSend
    PROVE  StressInv'
  <1>1. /\ pc = "handle" /\ client[i].open /\ client[i].state = "writing"
        /\ UNCHANGED <<stop_requested, poll_failed, exit_success, revents, net>>
        /\ i \in Clients /\ LoopTyped
    BY DEF HandleSend, Handling, runVars, StressInv, LoopTyped
  <1>2. PICK b, s, n : b = client[i] /\ s = next_sequence[i] /\ n = net[i]
    OBVIOUS
  <1>3. /\ b \in ClientSet /\ s \in 0..requests_per_client /\ n \in NetSet /\ InFlight(b, s, n)
        /\ Len(b.recv_buf) <= RecvCap /\ net' = [net EXCEPT ![i] = n]
    BY <1>1, <1>2, SameNet DEF StressInv, ClientsTyped, AllInFlight
  <1>4. CASE n.link = "rst"
    <2>1. Fail
      BY <1>2, <1>4 DEF HandleSend
    <2> QED
      BY <1>1, <1>2, <1>3, <1>4, <2>1, GivesUp
  <1>5. CASE n.link # "rst"
    <2>1. PICK off \in Nat, e \in Nat, a \in Nat, l \in Nat, cap \in Nat :
            off = b.send_offset /\ e = n.echoed /\ a = AnsweredBytes(b) /\ l = ReqLen /\ cap = NetCap
      <3>1. b.send_offset \in Nat /\ n.echoed \in Nat /\ AnsweredBytes(b) \in Nat
        BY <1>3, Constants, SentProps DEF ClientSet, NetSet
      <3> QED
        BY <3>1, Constants
    <2>2. Sent(i) = a + off /\ SentBy(b, s) = a + off
      <3>1. SentBy(b, s) = a + off
        BY <1>1, <1>2, <1>3, <2>1, SentProps
      <3> QED
        BY <1>2, <3>1 DEF Sent, SentBy
    <2>3. off < l /\ e <= a + off /\ a + off <= e + cap
      BY <1>1, <1>2, <1>3, <2>1, <2>2 DEF InFlight
    <2>4. PICK m : m = IF l - off <= cap - (a + off - e) THEN l - off ELSE cap - (a + off - e)
      OBVIOUS
    <2>5. m \in Nat /\ off + m \in 0..l /\ a + (off + m) <= e + cap /\ e <= a + (off + m)
          /\ (m = l - off <=> off + m = l)
      BY <2>3, <2>4
    <2>6. PICK c : c = [b EXCEPT !.send_offset = off + m, !.state = IF m = l - off THEN "reading" ELSE "writing"]
      OBVIOUS
    <2>7. /\ client' = [client EXCEPT ![i] = c] /\ Advance("check")
          /\ UNCHANGED <<next_sequence, completed, failed, latency_count>>
      <3>1. /\ Advance("check") /\ UNCHANGED <<next_sequence, completed, failed, latency_count>>
            /\ client' = [client EXCEPT ![i].send_offset = @ + m,
                                        ![i].state = StateAfterSend(m = ReqLen - client[i].send_offset)]
        BY <1>2, <1>5, <2>1, <2>2, <2>4 DEF HandleSend, statVars
      <3>2. client' = [client EXCEPT ![i].send_offset = off + m,
                                     ![i].state = IF m = l - off THEN "reading" ELSE "writing"]
        BY <1>2, <2>1, <3>1 DEF StateAfterSend
      <3> QED
        BY <1>1, <1>2, <2>6, <3>1, <3>2 DEF StressInv, ClientsTyped
    <2>8. /\ c \in ClientSet /\ c.open /\ c.state = (IF off + m = l THEN "reading" ELSE "writing")
          /\ c.send_offset = off + m /\ c.recv_buf = b.recv_buf
          /\ c.request_completed = b.request_completed
      <3>1. off + m \in 0..ReqLen
        BY <2>1, <2>5
      <3> QED
        BY <1>1, <1>2, <1>3, <2>5, <2>6, <3>1 DEF ClientSet, States
    <2>9. SentBy(c, s) = a + (off + m) /\ AnsweredBytes(c) = a
      <3>1. s # 0 /\ s - 1 = b.request_completed
        <4>1. s = b.request_completed + 1 /\ b.request_completed \in Nat
          BY <1>1, <1>2, <1>3 DEF InFlight, ClientSet
        <4> QED
          BY <4>1
      <3>2. SentBy(c, s) = b.request_completed * ReqLen + c.send_offset
        BY <3>1 DEF SentBy
      <3> QED
        BY <2>1, <2>8, <3>2 DEF AnsweredBytes
    <2>10. InFlight(c, s, n)
      <3>1. c.state \in {"writing", "reading"} /\ (c.state = "reading" => off + m = l) /\
            (c.state = "writing" => off + m < l)
        BY <2>5, <2>8
      <3>2. n.echoed <= SentBy(c, s) /\ SentBy(c, s) <= n.echoed + NetCap
        BY <2>1, <2>5, <2>9
      <3>3. c.state = "writing" => c.send_offset < ReqLen
        BY <2>1, <2>8, <3>1
      <3>4. c.state = "reading" => c.send_offset = ReqLen
        BY <2>1, <2>8, <3>1
      <3> QED
        BY <1>1, <1>2, <1>3, <2>1, <2>8, <2>9, <3>1, <3>2, <3>3, <3>4 DEF InFlight, States
    <2>11. pc' \in {"check", "handle"} /\ i' \in Clients
      BY <1>1, <2>7, AdvanceProps
    <2>12. next_sequence' = [next_sequence EXCEPT ![i] = s]
      BY <1>1, <1>2, <2>7 DEF StressInv, ClientsTyped
    <2> QED
      BY <1>1, <1>2, <1>3, <2>7, <2>8, <2>10, <2>11, <2>12, GoesOn
  <1> QED
    BY <1>4, <1>5

-----------------------------------------------------------------------------
(* handle_recv.                                                            *)

\* The first elements of a queue and the others.
LEMMA Cut ==
    ASSUME NEW S, NEW q \in Seq(S), NEW n \in 0..Len(q)
    PROVE  /\ SubSeq(q, 1, n) \in Seq(S) /\ Len(SubSeq(q, 1, n)) = n
           /\ SubSeq(q, n + 1, Len(q)) \in Seq(S) /\ Len(SubSeq(q, n + 1, Len(q))) = Len(q) - n
           /\ SubSeq(q, 1, n) \o SubSeq(q, n + 1, Len(q)) = q
  <1>0. Len(q) \in Nat
    OBVIOUS
  <1>1. SubSeq(q, 1, n) \in Seq(S) /\ Len(SubSeq(q, 1, n)) = n
    BY <1>0, SubSeqProperties
  <1>2. SubSeq(q, n + 1, Len(q)) \in Seq(S) /\ Len(SubSeq(q, n + 1, Len(q))) = Len(q) - n
    BY <1>0, SubSeqProperties
  <1>3. SubSeq(q, 1, n) \o SubSeq(q, n + 1, Len(q)) = SubSeq(q, 1, Len(q))
    <2>1. /\ 1 \in 1..(Len(q) + 1) /\ n \in (1 - 1)..Len(q) /\ Len(q) \in n..Len(q)
      BY <1>0
    <2> QED
      BY <2>1, ConcatAdjacentSubSeq
  <1> QED
    BY <1>1, <1>2, <1>3, SubSeqFull

\* A nonempty set of natural numbers has a smallest element.
LEMMA Smallest ==
    ASSUME NEW S \in SUBSET Nat, S # {}
    PROVE  Min(S) \in S
  <1>1. PICK x \in S : \A y \in S : ~ (<<y, x>> \in OpToRel(<, Nat))
    BY NatLessThanWellFounded, WFMin
  <1>2. \A y \in S : ~ (y < x)
    BY <1>1 DEF OpToRel
  <1>3. x \in S /\ \A y \in S : x <= y
    BY <1>2, SMT
  <1> QED
    BY <1>3 DEF Min

\* Queues one behind the other.
LEMMA Assoc == \A x, y, z \in Seq(ByteSet) : (x \o y) \o z = x \o (y \o z)
  BY ConcatAssociative

\* What is behind the first bytes of a run is a run.
LEMMA RunRest ==
    ASSUME NEW S, NEW p \in Seq(S), NEW q \in Seq(S), NEW a \in Nat, NEW b \in Nat,
           Run(p \o q, a, b)
    PROVE  Run(q, a + Len(p), b)
  <1>1. PICK l \in Nat, m \in Nat : l = Len(p) /\ m = Len(q)
    OBVIOUS
  <1>2. /\ Len(p \o q) = l + m
        /\ \A j \in 1..(l + m) : (p \o q)[j] = IF j <= l THEN p[j] ELSE q[j - l]
    BY <1>1, ConcatProperties
  <1>3. a + (l + m) = b /\ \A j \in 1..(l + m) : (p \o q)[j] = a + j
    BY <1>2 DEF Run
  <1>4. \A j \in 1..m : q[j] = (a + l) + j
    <2> TAKE j \in 1..m
    <2>1. l + j \in 1..(l + m) /\ ~(l + j <= l) /\ (l + j) - l = j /\ a + (l + j) = (a + l) + j
      OBVIOUS
    <2>2. (p \o q)[l + j] = q[(l + j) - l] /\ (p \o q)[l + j] = a + (l + j)
      BY <1>2, <1>3, <2>1
    <2>3. q[(l + j) - l] = q[j]
      BY <2>1, Zenon
    <2> QED
      BY <2>1, <2>2, <2>3, Zenon
  <1>5. (a + l) + m = b
    BY <1>3
  <1> QED
    BY <1>1, <1>4, <1>5 DEF Run

\* What the loop of handle_recv takes moves from the kernel's queue to recv_buf.
LEMMA BufferProps ==
    ASSUME StressInv, NEW k \in Clients, NEW rest,
           rest = SubSeq(net[k].inq, Len(Taken(k)) + 1, Len(net[k].inq))
    PROVE  /\ Buffer(k) \in Seq(ByteSet) /\ Len(Buffer(k)) \in Nat /\ Len(Buffer(k)) <= RecvCap
           /\ rest \in Seq(ByteSet)
           /\ Buffer(k) \o rest = client[k].recv_buf \o net[k].inq
  <1>1. PICK p, q : p = client[k].recv_buf /\ q = net[k].inq
    OBVIOUS
  <1>2. p \in Seq(ByteSet) /\ q \in Seq(ByteSet) /\ Len(p) <= RecvCap /\ RecvCap \in Nat
    BY <1>1, Constants DEF StressInv, ClientsTyped, ClientSet, NetSet
  <1>3. PICK l \in Nat, m \in Nat, cap \in Nat : l = Len(p) /\ m = Len(q) /\ cap = RecvCap
    BY <1>2
  <1>4. PICK x : x = IF m <= cap - l THEN m ELSE cap - l
    OBVIOUS
  <1>5. x \in 0..m /\ l + x <= cap
    <2>1. l <= cap
      BY <1>2, <1>3
    <2> QED
      BY <1>4, <2>1
  <1>6. Taken(k) = SubSeq(q, 1, x)
    BY <1>1, <1>3, <1>4 DEF Taken, Space
  <1>7. PICK t : t = SubSeq(q, 1, x)
    OBVIOUS
  <1>8. /\ t \in Seq(ByteSet) /\ Len(t) = x
        /\ SubSeq(q, x + 1, Len(q)) \in Seq(ByteSet) /\ t \o SubSeq(q, x + 1, Len(q)) = q
    BY <1>2, <1>3, <1>5, <1>7, Cut
  <1>9. rest \in Seq(ByteSet) /\ t \o rest = q
    BY <1>1, <1>6, <1>7, <1>8
  <1>10. Buffer(k) = p \o t
    BY <1>1, <1>6, <1>7 DEF Buffer
  <1>11. p \o t \in Seq(ByteSet) /\ Len(p \o t) = l + x
    BY <1>2, <1>3, <1>8, ConcatProperties
  <1>12. (p \o t) \o rest = p \o (t \o rest)
    <2>1. p \in Seq(ByteSet) /\ t \in Seq(ByteSet) /\ rest \in Seq(ByteSet)
      BY <1>2, <1>8, <1>9
    <2> QED
      BY <2>1, Assoc, Zenon
  <1>13. Len(p \o t) \in Nat /\ Len(p \o t) <= RecvCap
    BY <1>3, <1>5, <1>11
  <1>14. (p \o t) \o rest = p \o q
    BY <1>9, <1>12
  <1> QED
    BY <1>1, <1>9, <1>10, <1>11, <1>13, <1>14

\* A server that sends nothing of its own: recv_buf holds the first bytes of the
\* request in flight, and is a line just when it holds all of them.
LEMMA EchoIsRequest ==
    ASSUME StressInv, Reading, net[i].noise = 0
    PROVE  /\ LineEnds(i) # {} =>
                /\ Min(LineEnds(i)) = ReqLen /\ Len(Buffer(i)) = ReqLen
                /\ SubSeq(Buffer(i), 1, Min(LineEnds(i))) = Request(i)
           /\ LineEnds(i) = {} => Len(Buffer(i)) < ReqLen
  <1>1. i \in Clients /\ client[i].open /\ client[i].state = "reading"
    BY DEF StressInv, LoopTyped, Reading, Handling
  <1>2. PICK b, s, n, u : b = client[i] /\ s = next_sequence[i] /\ n = net[i] /\ u = Buffer(i)
    OBVIOUS
  <1>3. PICK rest : rest = SubSeq(net[i].inq, Len(Taken(i)) + 1, Len(net[i].inq))
    OBVIOUS
  <1>4. /\ u \in Seq(ByteSet) /\ Len(u) \in Nat /\ rest \in Seq(ByteSet)
        /\ u \o rest = b.recv_buf \o n.inq
    BY <1>1, <1>2, <1>3, BufferProps
  <1>5. /\ b \in ClientSet /\ s \in 0..requests_per_client /\ n \in NetSet /\ InFlight(b, s, n)
    BY <1>1, <1>2 DEF StressInv, ClientsTyped, AllInFlight
  <1>6. /\ b.request_completed \in Nat /\ s = b.request_completed + 1 /\ s <= requests_per_client
        /\ requests_per_client \in Nat /\ b.send_offset = ReqLen
    BY <1>1, <1>2, <1>5, Constants DEF InFlight, ClientSet
  <1>7. PICK a \in Nat, l \in Nat, e \in Nat, m \in Nat, r \in Nat :
          a = AnsweredBytes(b) /\ l = ReqLen /\ e = n.echoed /\ m = Len(u) /\ r = Len(rest)
    <2>1. AnsweredBytes(b) \in Nat /\ n.echoed \in Nat
      BY <1>5, SentProps DEF NetSet
    <2>2. Len(rest) \in Nat
      BY <1>4
    <2> QED
      BY <1>4, <2>1, <2>2, Constants
  <1>8. /\ Len(u \o rest) = m + r
        /\ \A j \in 1..(m + r) : (u \o rest)[j] = IF j <= m THEN u[j] ELSE rest[j - m]
    BY <1>4, <1>7, ConcatProperties
  <1>9. a + (m + r) = e /\ \A j \in 1..(m + r) : (u \o rest)[j] = a + j
    BY <1>2, <1>4, <1>5, <1>7, <1>8 DEF InFlight, Run
  <1>10. m <= l
    <2>1. SentBy(b, s) = a + l
      BY <1>1, <1>2, <1>5, <1>6, <1>7, SentProps
    <2>2. e <= a + l
      BY <1>5, <1>7, <2>1 DEF InFlight
    <2> QED
      BY <1>9, <2>2
  <1>11. \A j \in 1..m : u[j] = a + j
    <2> TAKE j \in 1..m
    <2>1. j \in 1..(m + r) /\ j <= m
      OBVIOUS
    <2> QED
      BY <1>8, <1>9, <2>1
  <1>12. LineEnds(i) = {p \in 1..m : p = l}
    <2>1. ASSUME NEW p \in 1..m PROVE IsNewline(u[p]) <=> p = l
      <3>1. p \in 1..ReqLen /\ b.request_completed < requests_per_client
        <4>1. p \in 1..l
          BY <1>10
        <4>2. b.request_completed < requests_per_client
          BY <1>6
        <4> QED
          BY <1>7, <4>1, <4>2
      <3>2. u[p] = b.request_completed * ReqLen + p
        BY <1>7, <1>11 DEF AnsweredBytes
      <3> QED
        BY <1>6, <1>7, <3>1, <3>2, OneNewline
    <2>2. LineEnds(i) = {p \in 1..Len(u) : IsNewline(u[p])}
      BY <1>2 DEF LineEnds
    <2> QED
      BY <1>7, <2>1, <2>2
  <1>13. CASE m = l
    <2>1. l >= 2
      BY <1>7, Constants
    <2>2. LineEnds(i) = {l}
      BY <1>12, <1>13, <2>1
    <2>3. Min(LineEnds(i)) = l
      <3>1. LineEnds(i) \in SUBSET Nat /\ LineEnds(i) # {}
        BY <2>2
      <3>2. Min(LineEnds(i)) \in LineEnds(i)
        BY <3>1, Smallest
      <3> QED
        BY <2>2, <3>2
    <2>4. u = Request(i)
      <3>1. (s - 1) * ReqLen = a
        <4>1. s - 1 = b.request_completed
          BY <1>6
        <4> QED
          BY <1>7, <4>1 DEF AnsweredBytes
      <3>2. Request(i) = [p \in 1..l |-> a + p]
        BY <1>2, <1>7, <3>1 DEF Request
      <3>3. u = [p \in 1..m |-> u[p]]
        BY <1>4, <1>7
      <3>4. u = [p \in 1..m |-> a + p]
        BY <1>11, <3>3
      <3> QED
        BY <1>13, <3>2, <3>4
    <2>5. SubSeq(u, 1, l) = u
      <3>1. SubSeq(u, 1, Len(u)) = u
        BY <1>4, SubSeqFull
      <3> QED
        BY <1>7, <1>13, <3>1
    <2> QED
      BY <1>2, <1>7, <1>13, <2>2, <2>3, <2>4, <2>5
  <1>14. CASE m # l
    <2>1. LineEnds(i) = {}
      BY <1>10, <1>12, <1>14
    <2>2. m < l
      BY <1>10, <1>14
    <2> QED
      BY <1>2, <1>7, <2>1, <2>2
  <1> QED
    BY <1>13, <1>14

\* The rest of the kernel's queue, after the calls of recv.
LEMMA Consumed ==
    ASSUME StressInv, Reading, RecvConsumes, NEW rest, NEW o,
           rest = SubSeq(net[i].inq, Len(Taken(i)) + 1, Len(net[i].inq)),
           o = [net[i] EXCEPT !.inq = rest]
    PROVE  /\ net' = [net EXCEPT ![i] = o] /\ o \in NetSet
           /\ o.link = net[i].link /\ o.echoed = net[i].echoed /\ o.noise = net[i].noise
           /\ o.inq = rest
  <1>1. i \in Clients /\ net[i] \in NetSet /\ net \in [Clients -> NetSet]
    BY DEF StressInv, LoopTyped, ClientsTyped
  <1>2. rest \in Seq(ByteSet)
    BY <1>1, BufferProps
  <1>3. /\ o \in NetSet /\ o.link = net[i].link /\ o.echoed = net[i].echoed
        /\ o.noise = net[i].noise /\ o.inq = rest
    BY <1>1, <1>2 DEF NetSet
  <1>4. net' = [net EXCEPT ![i] = o]
    BY <1>1 DEF RecvConsumes
  <1> QED
    BY <1>3, <1>4

\* No line yet, and the connection is as it was.
LEMMA RecvPartStep ==
    ASSUME StressInv, RecvPart
    PROVE  StressInv'
  <1>1. /\ pc = "handle" /\ client[i].open /\ client[i].state = "reading" /\ Reading
        /\ RecvConsumes /\ Advance("check")
        /\ client' = [client EXCEPT ![i].recv_buf = Buffer(i)]
        /\ UNCHANGED <<stop_requested, poll_failed, exit_success, next_sequence, revents,
                       completed, failed, latency_count>>
        /\ i \in Clients /\ LoopTyped
    BY DEF RecvPart, Reading, Handling, runVars, statVars, StressInv, LoopTyped
  <1>2. PICK b, s, n, u : b = client[i] /\ s = next_sequence[i] /\ n = net[i] /\ u = Buffer(i)
    OBVIOUS
  <1>3. PICK rest : rest = SubSeq(net[i].inq, Len(Taken(i)) + 1, Len(net[i].inq))
    OBVIOUS
  <1>4. PICK o : o = [net[i] EXCEPT !.inq = rest]
    OBVIOUS
  <1>5. /\ b \in ClientSet /\ s \in 0..requests_per_client /\ InFlight(b, s, n)
    BY <1>1, <1>2 DEF StressInv, ClientsTyped, AllInFlight
  <1>6. /\ u \in Seq(ByteSet) /\ Len(u) <= RecvCap /\ u \o rest = b.recv_buf \o n.inq
    BY <1>1, <1>2, <1>3, BufferProps
  <1>7. /\ net' = [net EXCEPT ![i] = o] /\ o \in NetSet /\ o.link = n.link
        /\ o.echoed = n.echoed /\ o.noise = n.noise /\ o.inq = rest
    BY <1>1, <1>2, <1>3, <1>4, Consumed
  <1>8. PICK c : c = [b EXCEPT !.recv_buf = u]
    OBVIOUS
  <1>9. /\ c \in ClientSet /\ c.open /\ c.state = "reading" /\ c.recv_buf = u
        /\ c.send_offset = b.send_offset /\ c.request_completed = b.request_completed
    BY <1>1, <1>2, <1>5, <1>6, <1>8 DEF ClientSet
  <1>10. SentBy(c, s) = SentBy(b, s) /\ AnsweredBytes(c) = AnsweredBytes(b)
    BY <1>9 DEF SentBy, AnsweredBytes
  <1>11. InFlight(c, s, o)
    BY <1>1, <1>2, <1>5, <1>6, <1>7, <1>9, <1>10 DEF InFlight
  <1>12. /\ client' = [client EXCEPT ![i] = c] /\ next_sequence' = [next_sequence EXCEPT ![i] = s]
    BY <1>1, <1>2, <1>8 DEF StressInv, ClientsTyped
  <1>13. pc' \in {"check", "handle"} /\ i' \in Clients
    BY <1>1, AdvanceProps
  <1> QED
    BY <1>1, <1>2, <1>5, <1>6, <1>7, <1>9, <1>11, <1>12, <1>13, GoesOn

\* Another line, a buffer without one, the end of the stream or an error.
LEMMA RecvFailsStep ==
    ASSUME StressInv, RecvFails
    PROVE  StressInv'
  <1>1. /\ pc = "handle" /\ client[i].open /\ client[i].state = "reading" /\ Reading
        /\ RecvConsumes /\ Fail
        /\ UNCHANGED <<stop_requested, poll_failed, exit_success, revents>>
        /\ i \in Clients
    BY DEF RecvFails, Reading, Handling, runVars, StressInv, LoopTyped
  <1>2. PICK n, rest : n = net[i] /\ rest = SubSeq(net[i].inq, Len(Taken(i)) + 1, Len(net[i].inq))
    OBVIOUS
  <1>3. PICK o : o = [net[i] EXCEPT !.inq = rest]
    OBVIOUS
  <1>4. /\ net' = [net EXCEPT ![i] = o] /\ o \in NetSet /\ o.link = n.link /\ o.noise = n.noise
    BY <1>1, <1>2, <1>3, Consumed
  <1>5. n.link \in {"up", "fin", "rst"} /\ n.noise \in Nat
    <2>1. InFlight(client[i], next_sequence[i], n) /\ n \in NetSet
      BY <1>1, <1>2 DEF StressInv, ClientsTyped, AllInFlight
    <2> QED
      BY <1>1, <2>1 DEF InFlight, NetSet
  <1>6. n.noise = 0 => n.link # "up"
    <2>1. SUFFICES ASSUME n.noise = 0 PROVE n.link # "up"
      OBVIOUS
    <2>2. /\ LineEnds(i) # {} => SubSeq(Buffer(i), 1, Min(LineEnds(i))) = Request(i)
          /\ LineEnds(i) = {} => Len(Buffer(i)) < ReqLen
      BY <1>1, <1>2, <2>1, EchoIsRequest
    <2>3. LineEnds(i) = {} /\ NoLine(i)
      BY <2>2 DEF RecvFails
    <2>4. Len(Buffer(i)) # RecvCap
      <3>1. Len(Buffer(i)) < ReqLen /\ Len(Buffer(i)) \in Nat
        BY <1>1, <2>2, <2>3, BufferProps
      <3> QED
        BY <3>1, Constants
    <2> QED
      BY <1>2, <2>3, <2>4 DEF NoLine
  <1>7. o.link \in {"refused", "fin", "rst"} \/ o.noise > 0
    BY <1>4, <1>5, <1>6
  <1> QED
    BY <1>1, <1>2, <1>4, <1>7, GivesUp

\* One more request is answered.
LEMMA OneMoreAnswered ==
    ASSUME NEW k \in Clients, NEW x \in Nat, x + 1 \in 1..requests_per_client,
           client[k].request_completed = x, client'[k].request_completed = x + 1,
           \A j \in Clients : j # k => client'[j].request_completed = client[j].request_completed
    PROVE  Cardinality(Answered') = Cardinality(Answered) + 1
  <1>1. <<k, x + 1>> \in Work
    BY DEF Work
  <1>2. <<k, x + 1>> \notin Answered
    <2>1. ~(x + 1 <= x)
      OBVIOUS
    <2> QED
      BY <2>1 DEF Answered
  <1>3. ASSUME NEW w \in Work
        PROVE  w \in Answered' <=> w \in Answered \/ w = <<k, x + 1>>
    <2>1. PICK j \in Clients, y \in 1..requests_per_client : w = <<j, y>>
      BY DEF Work
    <2>2. /\ w \in Answered <=> y <= client[j].request_completed
          /\ w \in Answered' <=> y <= client'[j].request_completed
      BY <2>1 DEF Answered
    <2>3. CASE j # k
      BY <2>1, <2>2, <2>3
    <2>4. CASE j = k
      <3>1. y \in Nat
        BY Constants
      <3>2. y <= x + 1 <=> y <= x \/ y = x + 1
        BY <3>1
      <3> QED
        BY <2>1, <2>2, <2>4, <3>2
    <2> QED
      BY <2>3, <2>4
  <1>4. Answered \subseteq Work /\ Answered' \subseteq Work
    BY DEF Answered, Work
  <1>5. Answered' = Answered \cup {<<k, x + 1>>}
    BY <1>1, <1>3, <1>4
  <1> QED
    BY <1>2, <1>5, SetSizes, FS_AddElement

\* The answer.
LEMMA RecvAnswerStep ==
    ASSUME StressInv, RecvAnswer
    PROVE  StressInv'
  <1>1. /\ pc = "handle" /\ client[i].open /\ client[i].state = "reading" /\ Reading
        /\ LineEnds(i) # {} /\ RecvConsumes /\ RecordLatency
        /\ completed' = completed + 1 /\ pc' = "next"
        /\ UNCHANGED <<i, stop_requested, poll_failed, exit_success, next_sequence, revents, failed>>
        /\ i \in Clients /\ LoopTyped
    BY DEF RecvAnswer, Reading, Handling, runVars, StressInv, LoopTyped
  <1>2. PICK b, s, n, u, m : /\ b = client[i] /\ s = next_sequence[i] /\ n = net[i] /\ u = Buffer(i)
                             /\ m = Min(LineEnds(i))
    OBVIOUS
  <1>3. PICK rest : rest = SubSeq(net[i].inq, Len(Taken(i)) + 1, Len(net[i].inq))
    OBVIOUS
  <1>4. PICK o : o = [net[i] EXCEPT !.inq = rest]
    OBVIOUS
  <1>5. /\ b \in ClientSet /\ s \in 0..requests_per_client /\ InFlight(b, s, n)
    BY <1>1, <1>2 DEF StressInv, ClientsTyped, AllInFlight
  <1>6. /\ u \in Seq(ByteSet) /\ Len(u) \in Nat /\ Len(u) <= RecvCap /\ rest \in Seq(ByteSet)
        /\ u \o rest = b.recv_buf \o n.inq
    BY <1>1, <1>2, <1>3, BufferProps
  <1>7. /\ net' = [net EXCEPT ![i] = o] /\ o \in NetSet /\ o.link = n.link
        /\ o.echoed = n.echoed /\ o.noise = n.noise /\ o.inq = rest
    <2>1. Reading /\ RecvConsumes
      BY <1>1
    <2>2. /\ net' = [net EXCEPT ![i] = o] /\ o \in NetSet
          /\ o.link = net[i].link /\ o.echoed = net[i].echoed /\ o.noise = net[i].noise
          /\ o.inq = rest
      BY <1>3, <1>4, <2>1, Consumed
    <2> QED
      BY <1>2, <2>2
  <1>8. m \in 1..Len(u)
    <2>1. LineEnds(i) \subseteq 1..Len(u)
      BY <1>2 DEF LineEnds
    <2>2. LineEnds(i) \in SUBSET Nat
      BY <1>6, <2>1
    <2> QED
      BY <1>1, <1>2, <2>1, <2>2, Smallest
  <1>9. PICK z : z = SubSeq(u, m + 1, Len(u))
    OBVIOUS
  <1>10. z \in Seq(ByteSet) /\ Len(z) = Len(u) - m /\ Len(z) <= RecvCap
    <2>1. m \in 0..Len(u)
      BY <1>6, <1>8
    <2>2. z \in Seq(ByteSet) /\ Len(z) = Len(u) - m
      BY <1>6, <1>9, <2>1, Cut
    <2> QED
      BY <1>6, <1>8, <2>2, Constants
  <1>11. PICK x \in Nat : x = b.request_completed
    BY <1>5, Constants DEF ClientSet
  <1>12. s = x + 1 /\ x + 1 \in 1..requests_per_client /\ b.send_offset = ReqLen
    <2>1. s = x + 1 /\ b.send_offset = ReqLen
      BY <1>1, <1>2, <1>5, <1>11 DEF InFlight
    <2> QED
      BY <1>5, <2>1, Constants
  <1>13. PICK c : c = [b EXCEPT !.recv_buf = z, !.request_completed = x + 1, !.state = "done"]
    OBVIOUS
  <1>14. /\ c \in ClientSet /\ c.open /\ c.state = "done" /\ c.recv_buf = z
         /\ c.send_offset = b.send_offset /\ c.request_completed = x + 1
    <2>1. x + 1 \in 0..requests_per_client
      BY <1>12
    <2> QED
      BY <1>1, <1>2, <1>5, <1>10, <1>13, <2>1 DEF ClientSet, States
  <1>15. client' = [client EXCEPT ![i] = c]
    <2>1. client' = [client EXCEPT ![i].recv_buf = z, ![i].request_completed = @ + 1, ![i].state = "done"]
      BY <1>2, <1>9 DEF RecvAnswer
    <2> QED
      BY <1>1, <1>2, <1>11, <1>13, <2>1 DEF StressInv, ClientsTyped
  <1>16. SentBy(c, s) = SentBy(b, s)
    BY <1>14 DEF SentBy
  <1>17. n.noise = 0 => Run(z \o rest, AnsweredBytes(c), n.echoed)
    <2>1. SUFFICES ASSUME n.noise = 0 PROVE Run(z \o rest, AnsweredBytes(c), n.echoed)
      OBVIOUS
    <2>2. m = ReqLen /\ Len(u) = ReqLen
      BY <1>1, <1>2, <2>1, EchoIsRequest
    <2>3. z = <<>>
      <3>1. Len(z) = 0
        BY <1>10, <2>2, Constants
      <3> QED
        BY <1>10, <3>1, EmptySeq
    <2>4. z \o rest = rest
      BY <1>6, <2>3, ConcatEmptySeq
    <2>5. Run(u \o rest, AnsweredBytes(b), n.echoed) /\ AnsweredBytes(b) \in Nat /\ n.echoed \in Nat
      <3>1. AnsweredBytes(b) \in Nat
        BY <1>5, SentProps
      <3>2. n.echoed \in Nat
        BY <1>1, <1>2 DEF StressInv, ClientsTyped, NetSet
      <3> QED
        BY <1>5, <1>6, <2>1, <3>1, <3>2 DEF InFlight
    <2>6. Run(rest, AnsweredBytes(b) + Len(u), n.echoed)
      BY <1>6, <2>5, RunRest
    <2>7. AnsweredBytes(c) = AnsweredBytes(b) + Len(u)
      BY <1>11, <1>14, <2>2, Times DEF AnsweredBytes
    <2> QED
      BY <2>4, <2>6, <2>7
  <1>18. InFlight(c, s, o)
    <2>1. n.link \in {"up", "fin", "rst"} /\ n.echoed <= SentBy(b, s) /\ SentBy(b, s) <= n.echoed + NetCap
      BY <1>1, <1>2, <1>5 DEF InFlight
    <2>2. s > 0
      BY <1>11, <1>12
    <2> QED
      BY <1>7, <1>12, <1>14, <1>16, <1>17, <2>1, <2>2 DEF InFlight, States
  <1>19. /\ ClientsTyped' /\ AllInFlight' /\ EventsHold'
         /\ client'[i] = c /\ net'[i] = o
         /\ \A k \in Clients : k # i => client'[k] = client[k] /\ net'[k] = net[k]
    <2>1. revents[i] \cap {"ERR", "HUP"} # {} => o.link \in {"refused", "rst"}
      BY <1>1, <1>2, <1>7 DEF StressInv, EventsHold
    <2>2. next_sequence' = [next_sequence EXCEPT ![i] = s]
      BY <1>1, <1>2 DEF StressInv, ClientsTyped
    <2> QED
      BY <1>1, <1>5, <1>7, <1>10, <1>14, <1>15, <1>18, <2>1, <2>2, OneClient
  <1>20. GivenUp' = GivenUp /\ i \notin GivenUp
    BY <1>1, <1>14, <1>19 DEF GivenUp
  <1>21. Counted' /\ completed' \in 0..total_requests
    <2>1. completed = Cardinality(Answered) /\ failed = Cardinality(GivenUp)
      BY <1>1 DEF StressInv, Counted
    <2>2. Cardinality(Answered') = Cardinality(Answered) + 1
      BY <1>1, <1>2, <1>11, <1>12, <1>14, <1>19, OneMoreAnswered
    <2>3. (Cardinality(Answered) \in 0..total_requests)'
      BY SetSizes, PTL
    <2> QED
      BY <1>1, <1>20, <2>1, <2>2, <2>3 DEF Counted, total_requests
  <1>22. LoopTyped'
    <2>1. latency_count' \in 0..latency_capacity
      <3>1. latency_capacity \in Nat
        BY WorkSize, Constants DEF latency_capacity
      <3> QED
        BY <1>1, <3>1 DEF RecordLatency, LoopTyped
    <2> QED
      BY <1>1, <1>21, <2>1 DEF LoopTyped, total_requests, latency_capacity
  <1>23. NoFalseFailure'
    <2>1. \A k \in GivenUp : k \in Clients /\ k # i /\ net'[k] = net[k]
      BY <1>19, <1>20 DEF GivenUp
    <2> QED
      BY <1>1, <1>20, <2>1 DEF StressInv, NoFalseFailure
  <1>24. Unstarted' /\ DoneOnlyNow' /\ Leaving'
    BY <1>1, <1>14, <1>19 DEF StressInv, Unstarted, DoneOnlyNow, Leaving
  <1> QED
    BY <1>19, <1>21, <1>22, <1>23, <1>24 DEF StressInv

\* After the answer: the next request, or the client is finished.
LEMMA NextRequestStep ==
    ASSUME StressInv, NextRequest
    PROVE  StressInv'
  <1>1. /\ pc = "next" /\ client[i].open /\ client[i].state = "done"
        /\ UNCHANGED <<stop_requested, poll_failed, exit_success, revents, completed, failed,
                       latency_count, net>>
        /\ i \in Clients /\ LoopTyped
    BY DEF NextRequest, runVars, statVars, StressInv, LoopTyped, DoneOnlyNow
  <1>2. PICK b, s, n : b = client[i] /\ s = next_sequence[i] /\ n = net[i]
    OBVIOUS
  <1>3. /\ b \in ClientSet /\ s \in 0..requests_per_client /\ n \in NetSet /\ InFlight(b, s, n)
        /\ Len(b.recv_buf) <= RecvCap /\ net' = [net EXCEPT ![i] = n]
    BY <1>1, <1>2, SameNet DEF StressInv, ClientsTyped, AllInFlight
  <1>4. pc' \in {"check", "handle"} /\ i' \in Clients
    <2>1. client_count \in Nat /\ client_count > 0 /\ i \in 0..(client_count - 1)
      BY <1>1, Constants DEF Clients
    <2>2. \/ pc' = "check" /\ i' = 0
          \/ pc' = "handle" /\ i' = i + 1 /\ i + 1 # client_count
      BY DEF NextRequest
    <2> QED
      BY <2>1, <2>2 DEF Clients
  <1>5. CASE s < requests_per_client
    <2>1. /\ client' = [client EXCEPT ![i] = Prepared(b)]
          /\ next_sequence' = [next_sequence EXCEPT ![i] = s + 1]
      BY <1>1, <1>2, <1>5 DEF NextRequest
    <2>2. PICK c, z : c = Prepared(b) /\ z = s + 1
      OBVIOUS
    <2>3. /\ c \in ClientSet /\ Len(c.recv_buf) <= RecvCap /\ c.open /\ c.state = "writing"
          /\ c.request_completed = b.request_completed
          /\ z \in 0..requests_per_client /\ InFlight(c, z, n)
      BY <1>1, <1>2, <1>3, <1>5, <2>2, PreparedProps
    <2> QED
      BY <1>1, <1>2, <1>3, <1>4, <2>1, <2>2, <2>3, GoesOn
  <1>6. CASE ~(s < requests_per_client)
    <2>1. /\ client' = [client EXCEPT ![i] = CloseClient(b)]
          /\ next_sequence' = [next_sequence EXCEPT ![i] = s]
      BY <1>1, <1>2, <1>6 DEF NextRequest, Finished, StressInv, ClientsTyped
    <2>2. PICK c : c = CloseClient(b)
      OBVIOUS
    <2>3. /\ c \in ClientSet /\ ~c.open /\ c.recv_buf = b.recv_buf
          /\ c.request_completed = b.request_completed
      BY <1>3, <2>2 DEF CloseClient, ClientSet, States
    <2>4. ~(c.request_completed < requests_per_client)
      BY <1>1, <1>2, <1>3, <1>6, <2>3 DEF InFlight
    <2>5. /\ ClientsTyped' /\ AllInFlight' /\ EventsHold'
          /\ client'[i] = c /\ net'[i] = n
          /\ \A k \in Clients : k # i => client'[k] = client[k] /\ net'[k] = net[k]
      <3>1. revents[i] \cap {"ERR", "HUP"} # {} => n.link \in {"refused", "rst"}
        BY <1>1, <1>2 DEF StressInv, EventsHold
      <3>2. /\ client' = [client EXCEPT ![i] = c] /\ next_sequence' = [next_sequence EXCEPT ![i] = s]
            /\ net' = [net EXCEPT ![i] = n] /\ revents' = revents
        BY <1>1, <1>3, <2>1, <2>2
      <3>3. Len(c.recv_buf) <= RecvCap /\ s \in 0..requests_per_client /\ n \in NetSet
        BY <1>3, <2>3
      <3> QED
        BY <2>3, <3>1, <3>2, <3>3, OneClient
    <2>6. Answered' = Answered
      <3>1. \A k \in Clients : client'[k].request_completed = client[k].request_completed
        BY <1>2, <2>3, <2>5
      <3> QED
        BY <3>1, SameAnswered
    <2>7. GivenUp' = GivenUp /\ i \notin GivenUp
      BY <1>1, <1>4, <2>4, <2>5 DEF GivenUp
    <2>8. Counted' /\ NoFalseFailure'
      <3>1. \A k \in GivenUp : k \in Clients /\ k # i /\ net'[k] = net[k]
        BY <2>5, <2>7 DEF GivenUp
      <3> QED
        BY <1>1, <1>4, <2>6, <2>7, <3>1 DEF StressInv, Counted, NoFalseFailure
    <2>9. LoopTyped'
      BY <1>1, <1>4 DEF LoopTyped
    <2>10. Unstarted' /\ DoneOnlyNow' /\ Leaving'
      BY <1>1, <1>4, <2>3, <2>5 DEF StressInv, Unstarted, DoneOnlyNow, Leaving
    <2> QED
      BY <2>5, <2>8, <2>9, <2>10 DEF StressInv
  <1> QED
    BY <1>5, <1>6

-----------------------------------------------------------------------------
(* The theorems.                                                           *)

\* Every step keeps the inductive invariant.
LEMMA StressNextInv == StressInv /\ [Next]_vars => StressInv'
  <1> SUFFICES ASSUME StressInv, [Next]_vars PROVE StressInv'
    OBVIOUS
  <1>1. CASE UNCHANGED vars
    <2>1. UNCHANGED <<pc, i, stop_requested, poll_failed, exit_success, client, next_sequence,
                      revents, completed, failed, latency_count, net>>
      BY <1>1 DEF vars, loopVars, runVars, statVars
    <2> QED
      BY <2>1 DEF StressInv, LoopTyped, ClientsTyped, Counted, NoFalseFailure, AllInFlight,
                  Unstarted, DoneOnlyNow, EventsHold, Leaving, Answered, GivenUp
  <1>2. CASE Main
    <2>1. CASE Reconnect
      BY <2>1, ReconnectStep
    <2>2. CASE Leave \/ Build \/ Poll \/ Skip
      BY <2>2, LoopStep
    <2>3. CASE Connected
      BY <2>3, ConnectedStep
    <2>4. CASE Fatal
      BY <2>4, FatalStep
    <2>5. CASE HandleSend
      BY <2>5, HandleSendStep
    <2>6. CASE RecvAnswer
      BY <2>6, RecvAnswerStep
    <2>7. CASE RecvFails
      BY <2>7, RecvFailsStep
    <2>8. CASE RecvPart
      BY <2>8, RecvPartStep
    <2>9. CASE NextRequest
      BY <2>9, NextRequestStep
    <2>10. CASE Report
      BY <2>10, ReportStep
    <2> QED
      BY <1>2, <2>1, <2>2, <2>3, <2>4, <2>5, <2>6, <2>7, <2>8, <2>9, <2>10 DEF Main, Handle
  <1>3. CASE Environment
    <2>1. CASE \E k \in Clients : ConnectEnds(k) \/ Echo(k) \/ Noise(k) \/ Lose(k)
      BY <2>1, NetStep
    <2>2. CASE Interrupt \/ PollInterrupted \/ PollFails
      BY <2>2, LoopStep
    <2> QED
      BY <1>3, <2>1, <2>2 DEF Environment
  <1> QED
    BY <1>1, <1>2, <1>3 DEF Next

\* Every reachable state satisfies the inductive invariant.
THEOREM StressInvariant == Spec => []StressInv
  <1>1. Init => StressInv
    BY StressInitInv
  <1>2. StressInv /\ [Next]_vars => StressInv'
    BY StressNextInv
  <1> QED
    BY <1>1, <1>2, PTL DEF Spec

\* Offsets and lengths stay in the buffers, the counters count what they should,
\* and no client is left behind (lines 397-520 and 716-942).
THEOREM StressInvTheorem == Spec => []Inv
  <1>1. StressInv => Inv
    <2> SUFFICES ASSUME StressInv PROVE Inv
      OBVIOUS
    <2>1. TypeOK
      <3>1. ASSUME NEW k \in Clients
            PROVE  /\ client[k].open \in BOOLEAN /\ client[k].state \in States
                   /\ client[k].send_offset \in 0..ReqLen
                   /\ client[k].recv_buf \in Seq(ByteSet) /\ Len(client[k].recv_buf) <= RecvCap
                   /\ client[k].request_completed \in 0..requests_per_client
                   /\ next_sequence[k] \in 0..requests_per_client
                   /\ revents[k] \in SUBSET Events /\ net[k].inq \in Seq(ByteSet)
        BY DEF StressInv, ClientsTyped, ClientSet, NetSet
      <3>2. LoopTyped
        BY DEF StressInv
      <3> QED
        BY <3>1, <3>2 DEF TypeOK, LoopTyped, States, Events
    <2>2. Accounting
      BY DEF StressInv, Counted, AllInFlight, InFlight, Accounting
    <2>3. NobodyIdle
      BY DEF StressInv, AllInFlight, InFlight, DoneOnlyNow, NobodyIdle, States
    <2> QED
      BY <2>1, <2>2, <2>3 DEF Inv
  <1> QED
    BY <1>1, StressInvariant, PTL

\* A server that sends back what it received, and keeps its connections, is never
\* blamed, however the bytes are split and the events ordered (lines 397-520).
THEOREM NoFalseFailureTheorem == Spec => []NoFalseFailure
  <1>1. StressInv => NoFalseFailure
    BY DEF StressInv
  <1> QED
    BY <1>1, StressInvariant, PTL

\* A successful exit status, unless poll failed, says that every request was
\* answered (lines 803-811 and 1050-1053).
THEOREM SuccessTheorem == Spec => []SuccessIsComplete
  <1>1. StressInv => SuccessIsComplete
    BY DEF StressInv, Leaving, SuccessIsComplete
  <1> QED
    BY <1>1, StressInvariant, PTL

\* Where the counters reach the number of requests, the requests without an answer
\* are the last ones of the clients that are given up.
LEMMA Unanswered ==
    ASSUME StressInv, pc = "report", completed + failed >= total_requests
    PROVE  \A w \in Work \ Answered : w[1] \in GivenUp /\ w[2] = requests_per_client
  <1> DEFINE U == Work \ Answered
             f == [k \in GivenUp |-> <<k, requests_per_client>>]
  <1>1. /\ IsFiniteSet(U) /\ Cardinality(U) \in Nat /\ Cardinality(GivenUp) \in Nat
        /\ Cardinality(U) <= Cardinality(GivenUp)
    <2>1. Work \cap Answered = Answered
      BY DEF Work, Answered
    <2>2. IsFiniteSet(U) /\ Cardinality(U) = total_requests - Cardinality(Answered)
      BY <2>1, WorkSize, FS_Difference
    <2>3. completed = Cardinality(Answered) /\ failed = Cardinality(GivenUp)
      BY DEF StressInv, Counted
    <2>4. PICK t \in Nat, a \in Nat, g \in Nat :
            t = total_requests /\ a = completed /\ g = failed
      <3>1. completed \in 0..total_requests /\ failed \in 0..total_requests /\ total_requests \in Nat
        BY WorkSize DEF StressInv, LoopTyped
      <3>2. completed \in Nat /\ failed \in Nat
        BY <3>1
      <3> QED
        BY <3>1, <3>2
    <2>5. a + g >= t
      BY <2>4
    <2>6. t - a <= g
      BY <2>5
    <2> QED
      BY <2>2, <2>3, <2>4, <2>6, FS_CardinalityType
  <1>2. ASSUME NEW k \in GivenUp PROVE <<k, requests_per_client>> \in U
    <2>1. k \in Clients /\ client[k].request_completed < requests_per_client
      BY <1>2 DEF GivenUp
    <2>2. client[k].request_completed \in Nat /\ requests_per_client \in 1..requests_per_client
      BY <2>1, Constants DEF StressInv, ClientsTyped, ClientSet
    <2>3. ~(requests_per_client <= client[k].request_completed)
      BY <2>1, <2>2, Constants
    <2> QED
      BY <2>1, <2>2, <2>3 DEF Work, Answered
  <1>3. f \in Injection(GivenUp, U)
    <2>1. f \in [GivenUp -> U]
      BY <1>2
    <2>2. \A j, k \in GivenUp : f[j] = f[k] => j = k
      OBVIOUS
    <2> HIDE DEF f, U
    <2> QED
      BY <2>1, <2>2, Fun_IsInj
  <1>4. f \in Surjection(GivenUp, U)
    <2> HIDE DEF f, U
    <2>1. Cardinality(GivenUp) <= Cardinality(U)
      BY <1>1, <1>3, FS_Injection
    <2>2. Cardinality(GivenUp) = Cardinality(U)
      BY <1>1, <2>1
    <2> QED
      BY <1>1, <1>3, <2>2, FS_Injection
  <1>5. \A w \in U : \E k \in GivenUp : f[k] = w
    <2> HIDE DEF f, U
    <2> QED
      BY <1>4, Fun_SurjectionProperties
  <1> QED
    BY <1>5

\* A run that ends by itself has given up clients only on their last request, and
\* has the answers to all other requests: completed + failed falls short for ever
\* as soon as a client is given up earlier (lines 724-726).
THEOREM EndsTheorem == Spec => []EndsOnlyIfAccounted
  <1>1. ASSUME StressInv, pc = "report", ~stop_requested, ~poll_failed, NEW k \in Clients
        PROVE  client[k].request_completed \in
                 (IF k \in GivenUp THEN {requests_per_client - 1} ELSE {requests_per_client})
    <2>1. completed + failed >= total_requests
      BY <1>1 DEF StressInv, Leaving
    <2>2. PICK x \in Nat, r \in Nat : x = client[k].request_completed /\ r = requests_per_client
      BY <1>1, Constants DEF StressInv, ClientsTyped, ClientSet
    <2>3. x <= r /\ r > 0
      BY <1>1, <2>2, Constants DEF StressInv, ClientsTyped, ClientSet
    <2>4. ASSUME NEW y \in 1..r, x < y PROVE k \in GivenUp /\ y = r
      <3>1. <<k, y>> \in Work \ Answered
        BY <1>1, <2>2, <2>4 DEF Work, Answered
      <3> QED
        BY <1>1, <2>1, <2>2, <3>1, Unanswered
    <2>5. CASE k \in GivenUp
      <3>1. x < r
        BY <2>2, <2>5 DEF GivenUp
      <3>2. ~(x + 1 < r)
        <4>1. x + 1 \in 1..r /\ x < x + 1
          BY <3>1
        <4> QED
          BY <2>4, <4>1
      <3>3. x = r - 1
        BY <3>1, <3>2
      <3> QED
        BY <2>2, <2>5, <3>3
    <2>6. CASE k \notin GivenUp
      <3>1. ~(x < r)
        <4>1. r \in 1..r
          BY <2>3
        <4> QED
          BY <2>4, <2>6, <4>1
      <3>2. x = r
        BY <2>3, <3>1
      <3> QED
        BY <2>2, <2>6, <3>2
    <2> QED
      BY <2>5, <2>6
  <1>2. StressInv => EndsOnlyIfAccounted
    BY <1>1 DEF EndsOnlyIfAccounted
  <1> QED
    BY <1>2, StressInvariant, PTL

=============================================================================
