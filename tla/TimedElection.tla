--------------------------- MODULE TimedElection ---------------------------
(***************************************************************************)
(* Slaves and the regular master of supertel/task1 on the network and with *)
(* the clocks the protocol is made for: every broadcast reaches every node *)
(* that runs, in any order, well before a unit of time has passed, and an  *)
(* expired timer is served within that time too.  Nodes are started and    *)
(* killed at any moment, also between the packets of one broadcast.        *)
(*                                                                         *)
(* What is assumed here of data_received is that recvfrom reports the      *)
(* address a packet came from, so that a node drops its own.               *)
(***************************************************************************)
EXTENDS Slave, FiniteSets

CONSTANTS
    RegularMaster,  \* the regular master
    Settings        \* what may happen, one setting for each behaviour:
                    \*   votes      slave -> the values its slave_poll may draw
                    \*   changes    whether averages may change, may stay
                    \*   stops      how many times nodes are killed
                    \*   inFlight   how many datagrams may be in flight

ASSUME TimedAssumption ==
    /\ RegularMaster \notin Slaves
    /\ \A s \in Settings :
          /\ s.votes \in [Slaves -> SUBSET (Nat \ {0})]
          /\ s.changes \in SUBSET BOOLEAN
          /\ s.stops \in Nat /\ s.inFlight \in Nat
    /\ SlavePolling + MasterRequest < MasterGone

VARIABLES
    tmr,    \* the request timer of the regular master, armed while it runs
    net,    \* the datagrams in flight; equal ones are numbered from 0
    stops,  \* nodes killed so far
    set     \* the setting

vars == <<node, tmr, net, stops, set>>

Running == {n \in Slaves : node[n].state # "OFF"}
               \cup (IF Armed(tmr) THEN {RegularMaster} ELSE {})

\* How many copies of a packet are in flight to m.
Copies(m, p) == Cardinality({d \in net : d.to = m /\ d.packet = p})

\* Node n broadcasts the packets of out.
Broadcast(n, out) ==
    {[to |-> m, packet |-> p, copy |-> Copies(m, p)] : m \in Running \ {n}, p \in out}

\* Datagram d arrives at n, the last of its copies.
Arrives(d, n) == d.to = n /\ [d EXCEPT !.copy = @ + 1] \notin net

\* The network without the datagrams to n.
Without(n) == {d \in net : d.to # n}

Init ==
    /\ node = [n \in Slaves |-> Off]
    /\ tmr = timer_init
    /\ net = {}
    /\ stops = 0
    /\ set \in Settings

\* Slave n ends up with a handler's result, the network N apart.
Apply(n, res, N) ==
    /\ node' = [node EXCEPT ![n] = res.node]
    /\ net' = N \cup Broadcast(n, res.out)
    /\ Cardinality(net') <= set.inFlight
    /\ UNCHANGED <<tmr, stops, set>>

-----------------------------------------------------------------------------
(* Nodes start and stop.                                                   *)

Start(n) ==
    /\ node[n].state = "OFF"
    /\ Apply(n, Result(slave_run, {}), net)

Stop(n) ==
    /\ node[n].state # "OFF"
    /\ stops < set.stops
    /\ node' = [node EXCEPT ![n] = Off]
    /\ net' = Without(n)
    /\ stops' = stops + 1
    /\ UNCHANGED <<tmr, set>>

master_run ==
    /\ ~ Armed(tmr)
    /\ tmr' = timer_set_periodic(timer_init, MasterRequest, "request")
    /\ net' = net \cup Broadcast(RegularMaster, {Packet("RESET")})
    /\ Cardinality(net') <= set.inFlight
    /\ UNCHANGED <<node, stops, set>>

MasterStops ==
    /\ Armed(tmr)
    /\ stops < set.stops
    /\ tmr' = timer_init
    /\ net' = Without(RegularMaster)
    /\ stops' = stops + 1
    /\ UNCHANGED <<node, set>>

-----------------------------------------------------------------------------
(* Packets and timers.                                                     *)

data_received(n) ==
    \E d \in net, v \in set.votes[n], changed \in set.changes :
        /\ Arrives(d, n)
        /\ Apply(n, slave_act(node[n], d.packet, v, changed), net \ {d})

\* master_act of the regular master: averages after a response, and a reset
\* after a vote.
master_act(p, changed) ==
    CASE p.type = "RESPONSE" /\ changed -> {Packet("MSG")}
      [] p.type = "VOTE"                -> {Packet("RESET")}
      [] OTHER                          -> {}

master_data_received ==
    \E d \in net, changed \in set.changes :
        /\ Arrives(d, RegularMaster)
        /\ net' = (net \ {d}) \cup Broadcast(RegularMaster, master_act(d.packet, changed))
        /\ Cardinality(net') <= set.inFlight
        /\ UNCHANGED <<node, tmr, stops, set>>

Due(t) == Armed(t) /\ t.left = 0

GoneTimer(n) ==
    /\ Due(node[n].gone)
    /\ \E v \in set.votes[n] : Apply(n, gone_fires(node[n], v), net)

PollTimer(n) ==
    /\ Due(node[n].poll)
    /\ \E changed \in set.changes : Apply(n, poll_fires(node[n], changed), net)

RequestTimer(n) ==
    /\ Due(node[n].req)
    /\ Apply(n, request_fires(node[n]), net)

MasterTimer ==
    /\ Due(tmr)
    /\ tmr' = Fired(tmr)
    /\ net' = net \cup Broadcast(RegularMaster, {Packet("REQUEST")})
    /\ Cardinality(net') <= set.inFlight
    /\ UNCHANGED <<node, stops, set>>

\* Time passes once all that was due is done.
Quiet ==
    /\ net = {}
    /\ ~ Due(tmr)
    /\ \A n \in Slaves : ~ Due(node[n].gone) /\ ~ Due(node[n].poll) /\ ~ Due(node[n].req)

Tick ==
    /\ Quiet
    /\ Running # {}
    /\ node' = [n \in Slaves |-> [node[n] EXCEPT !.gone = Ticked(@), !.poll = Ticked(@),
                                                 !.req = Ticked(@)]]
    /\ tmr' = Ticked(tmr)
    /\ UNCHANGED <<net, stops, set>>

\* What the nodes and the clock do by themselves.
Progress ==
    \/ \E n \in Slaves :
          \/ data_received(n)
          \/ GoneTimer(n)
          \/ PollTimer(n)
          \/ RequestTimer(n)
    \/ master_data_received
    \/ MasterTimer
    \/ Tick

\* What is done to them.
Environment ==
    \/ \E n \in Slaves : Start(n) \/ Stop(n)
    \/ master_run
    \/ MasterStops

Next == Progress \/ Environment

Spec == Init /\ [][Next]_vars

\* Time goes on and what is due gets done.
FairSpec == Spec /\ WF_vars(Progress)

-----------------------------------------------------------------------------

Masters == {n \in Slaves : node[n].state = "MASTER"}
               \cup (IF Armed(tmr) THEN {RegularMaster} ELSE {})

\* There is always one master (task1/README, "the master is always one"): once
\* the packets in flight have arrived no two nodes act as masters, whichever
\* nodes were started and killed, however votes collided, and in whatever order
\* packets arrived.
OneMaster == net = {} => Cardinality(Masters) <= 1

\* The regular master rules: once the packets in flight have arrived no slave
\* polls or acts as the master while the regular master runs.  It resets whoever
\* is at it when it starts, and answers every later vote by a reset.
RegularMasterRules ==
    net = {} /\ Armed(tmr) => \A n \in Slaves : node[n].state \in {"OFF", "IDLE", "WAITING"}

\* A slave that acts as the master queries the slaves before any of them can
\* give it up: MASTER_GONE_TIMEOUT is long enough also for a slave that quit the
\* poll at its very beginning.
HeardInTime ==
    Quiet => \A s, n \in Slaves :
        node[s].state = "MASTER" /\ Armed(node[n].gone) => node[n].gone.left > node[s].req.left

Settled ==
    /\ Cardinality(Masters) = 1
    /\ \A n \in Slaves : node[n].state \in {"OFF", "IDLE", "MASTER"}

NoTies == \A n, m \in Slaves : n # m => set.votes[n] \cap set.votes[m] = {}

\* Once nodes are no longer started and killed the system settles, unless votes
\* go on colliding: for good there is one master, every slave that runs and is
\* not the master is idle, and nobody polls.
Settles == NoTies => <>[](Settled \/ Running = {})
=============================================================================
