--------------------------- MODULE LossyElection ---------------------------
(***************************************************************************)
(* Slaves and the regular master of supertel/task1 on a network that makes *)
(* no promise: a datagram may be lost, arrive late, more than once and out *)
(* of order.  There is no clock either: an armed timer may go off at any   *)
(* moment.  Nodes are started, killed and started again.                   *)
(*                                                                         *)
(* A packet is held by the network for good, so that losing it is never    *)
(* delivering it.  A node may also receive its own broadcasts.             *)
(* data_received drops packets from its own address, but it calls recvfrom *)
(* with an uninitialised address length, so the address it compares may    *)
(* not have been written.                                                  *)
(*                                                                         *)
(* The names say lossy where TimedElection has an action of the same code, *)
(* so that ElectionProofs can extend both.                                 *)
(***************************************************************************)
EXTENDS Slave

CONSTANT
    Votes       \* the values slave_poll may draw

ASSUME VotesAssumption == Votes \subseteq Nat \ {0}

VARIABLES
    master_on,  \* the regular master runs
    sent        \* packets sent so far

lossyVars == <<node, master_on, sent>>

LossyInit ==
    /\ node = [n \in Slaves |-> Off]
    /\ master_on = FALSE
    /\ sent = {}

\* Slave n ends up with a handler's result.
LossyApply(n, res) ==
    /\ node' = [node EXCEPT ![n] = res.node]
    /\ sent' = sent \cup res.out
    /\ UNCHANGED master_on

LossyStart(n) ==
    /\ node[n].state = "OFF"
    /\ LossyApply(n, Result(slave_run, {}))

\* The process is killed.
LossyStop(n) ==
    /\ node[n].state # "OFF"
    /\ LossyApply(n, Result(Off, {}))

lossy_data_received(n) ==
    /\ node[n].state # "OFF"
    /\ \E p \in sent, v \in Votes, changed \in BOOLEAN :
          LossyApply(n, slave_act(node[n], p, v, changed))

LossyGoneTimer(n) ==
    /\ Armed(node[n].gone)
    /\ \E v \in Votes : LossyApply(n, gone_fires(node[n], v))

LossyPollTimer(n) ==
    /\ Armed(node[n].poll)
    /\ \E changed \in BOOLEAN : LossyApply(n, poll_fires(node[n], changed))

LossyRequestTimer(n) ==
    /\ Armed(node[n].req)
    /\ LossyApply(n, request_fires(node[n]))

\* master_run of the regular master.
lossy_master_run ==
    /\ ~ master_on
    /\ master_on' = TRUE
    /\ sent' = sent \cup {Packet("RESET")}
    /\ UNCHANGED node

\* What the regular master sends later: requests by its timer, messages after
\* responses, and a reset after a vote.
MasterSends ==
    /\ master_on
    /\ \/ sent' = sent \cup {Packet("REQUEST")}
       \/ /\ Packet("RESPONSE") \in sent
          /\ sent' = sent \cup {Packet("MSG")}
       \/ /\ \E v \in Votes : Vote(v) \in sent
          /\ sent' = sent \cup {Packet("RESET")}
    /\ UNCHANGED <<node, master_on>>

LossyMasterStops ==
    /\ master_on
    /\ master_on' = FALSE
    /\ UNCHANGED <<node, sent>>

LossyNext ==
    \/ \E n \in Slaves :
          \/ LossyStart(n)
          \/ LossyStop(n)
          \/ lossy_data_received(n)
          \/ LossyGoneTimer(n)
          \/ LossyPollTimer(n)
          \/ LossyRequestTimer(n)
    \/ lossy_master_run
    \/ MasterSends
    \/ LossyMasterStops

LossySpec == LossyInit /\ [][LossyNext]_lossyVars

-----------------------------------------------------------------------------

TypeOK ==
    /\ node \in [Slaves -> Nodes]
    /\ master_on \in BOOLEAN
    /\ sent \subseteq Packets

\* No slave is ever stuck, and no timer of one state disturbs another.  A slave
\* that listens for a master has the one-shot timer that starts a poll, and no
\* other slave has it.  A polling slave has the one-shot timer that makes it the
\* master.  A mastering slave has two periodic timers, to query the slaves and
\* to read its own sensors; poll_tmr serves both for polling and for mastering,
\* so the second must not inherit the one-shot job of the first.  The timer of
\* queries exists in no other state.  A poll timer left behind by an aborted
\* poll is a one-shot one.
TimersFitState == \A n \in Slaves : Fit(node[n])

\* A slave that polls has sent a vote greater than every vote it heard in this
\* poll: only such a slave can become the master when its poll timer goes off.
\* A master and an idle slave have forgotten the votes of the poll, and so a
\* mastering slave joins the next poll instead of ignoring its votes.
PollIsAhead ==
    \A n \in Slaves :
        /\ Ahead(node[n])
        /\ node[n].state = "POLLING" => Vote(node[n].vote_sent) \in sent

\* A slave becomes the master only by winning a poll: it was polling, it had
\* voted, and the step is its poll timer going off, not a packet.
OnlyByPoll ==
    [][\A n \in Slaves :
          node[n].state # "MASTER" /\ node'[n].state = "MASTER" =>
              /\ node[n].state = "POLLING"
              /\ Vote(node[n].vote_sent) \in sent
              /\ LossyPollTimer(n)]_lossyVars

\* The inductive invariant.
IInv ==
    /\ TypeOK
    /\ TimersFitState
    /\ PollIsAhead
=============================================================================
